---- MODULE Spec2Model ----
(***************************************************************************)
(* A model of the auto-poster pipeline: input validation and orchestration *)
(* (main.py run), the fallback knowledge base lookup (_get_demo_specs),    *)
(* model resolution (find_model_by_name), the fetch layer and the image    *)
(* waterfall (find_car_image).                                             *)
(*                                                                         *)
(* Python strings that the code inspects character by character (makes,    *)
(* models, candidate names) are sequences of one-character strings.        *)
(* Attribute mappings are functions from label to value.                   *)
(***************************************************************************)
EXTENDS Integers, Sequences, FiniteSets, TLC

VARIABLES
  pc,          \* position of the single thread of control
  stack,       \* return addresses of the calls in progress
  brand_in,    \* run: argument brand
  model_in,    \* run: argument model (NoneStr when not given)
  playwright,  \* whether the playwright package can be imported
  brand,       \* run: brand after strip()
  models,      \* candidates returned by the last listing or search
  model_link,  \* run: result of find_model_by_name
  car_specs,   \* run: the CarSpecs being built (None before)
  html,        \* result of the last page fetch
  url,         \* URL of the page fetch in progress
  fcs_model,   \* fetch_car_specs: argument model
  attempt,     \* _get_url: loop counter
  browser,     \* number of open browser sessions
  io,          \* I/O calls made so far, in order
  rendered,    \* specifications handed to generate_poster
  raised,      \* exception that left run ("no" when none)
  lk_make,     \* _get_demo_specs: argument make
  lk_model,    \* _get_demo_specs: argument model
  lk_result,   \* _get_demo_specs: returned mapping
  img_url,     \* find_car_image: argument catalog_image_url
  api_key,     \* whether OPENAI_API_KEY is set
  openai_ok,   \* whether the openai package can be imported
  img_calls,   \* steps of the waterfall called so far, in order
  img_returns, \* what each returned step returned
  img_left,    \* candidates left in the loop of a search step
  img_dl,      \* what the last download received
  img,         \* find_car_image: local variable img
  img_caught,  \* steps in which an exception was caught
  img_result,  \* find_car_image: return value
  img_raised   \* exception that left find_car_image ("no" when none)

inVars == <<brand_in, model_in, playwright>>
runVars == <<stack, brand, models, model_link, car_specs, html, url,
             fcs_model, attempt, browser, io, rendered, raised>>
lkVars == <<lk_make, lk_model, lk_result>>
imgVars == <<img_url, api_key, openai_ok, img_calls, img_returns, img_left,
             img_dl, img, img_caught, img_result, img_raised>>
vars == <<pc, inVars, runVars, lkVars, imgVars>>

(***************************************************************************)
(* str methods used by the code                                            *)
(***************************************************************************)
UpperCase == <<"A","B","C","D","E","F","G","H","I","J","K","L","M",
               "N","O","P","Q","R","S","T","U","V","W","X","Y","Z">>
LowerCase == <<"a","b","c","d","e","f","g","h","i","j","k","l","m",
               "n","o","p","q","r","s","t","u","v","w","x","y","z">>
Letters == 1..Len(UpperCase)

\* The characters str.strip() removes (the ASCII whitespace the inputs use).
Whitespace == {" ", "\t", "\n"}

Min(S) == CHOOSE x \in S : \A y \in S : x <= y

\* F applied to the value of v, with v evaluated once (a local variable).
With(v, F(_)) == CHOOSE r \in {F(x) : x \in {v}} : TRUE

LowerChar(c) ==
  IF \E i \in Letters : UpperCase[i] = c
    THEN LowerCase[CHOOSE i \in Letters : UpperCase[i] = c]
    ELSE c

\* str.lower()
lower(s) == With(s, LAMBDA x : [i \in 1..Len(x) |-> LowerChar(x[i])])

RECURSIVE lstrip(_)
lstrip(s) ==
  IF s # <<>> /\ Head(s) \in Whitespace THEN lstrip(Tail(s)) ELSE s

RECURSIVE rstrip(_)
rstrip(s) ==
  IF s # <<>> /\ s[Len(s)] \in Whitespace
    THEN rstrip(SubSeq(s, 1, Len(s) - 1))
    ELSE s

\* str.strip()
strip(s) == With(s, LAMBDA x : With(lstrip(x), LAMBDA y : rstrip(y)))

\* Python's  a in b  on strings
IsSubstr(a, b) ==
  \E x \in {a}, y \in {b} :
    \E i \in 0..(Len(y) - Len(x)) : SubSeq(y, i + 1, i + Len(x)) = x

IsSpace(c) == c = " "
NotSpace(c) == ~IsSpace(c)

\* str.replace(" ", "")
remove_spaces(s) == SelectSeq(s, NotSpace)


(***************************************************************************)
(* Fallback knowledge base (main.py)                                       *)
(***************************************************************************)
\* dict in insertion order: iteration over .items() follows the index.
DEMO_SPECS_DB ==
  <<
    [mk |-> <<"a", "u", "d", "i">>,
     md |-> <<"t", "t", " ", "r", "s">>,
     specs |-> ("Engine" :> "2.5L TFSI 5-cyl Turbo")
        @@ ("Power" :> "400 HP @ 5,850 rpm")
        @@ ("Torque" :> "354 lb-ft @ 1,700 rpm")
        @@ ("0-60 mph" :> "3.6 s")
        @@ ("Top Speed" :> "174 mph")
        @@ ("Drivetrain" :> "Quattro AWD")
        @@ ("Transmission" :> "7-speed S tronic DCT")],
    [mk |-> <<"b", "m", "w">>,
     md |-> <<"m", "3">>,
     specs |-> ("Engine" :> "3.0L S58 Twin-Turbo I6")
        @@ ("Power" :> "473 HP @ 6,250 rpm")
        @@ ("Torque" :> "406 lb-ft @ 2,750 rpm")
        @@ ("0-60 mph" :> "3.8 s")
        @@ ("Top Speed" :> "180 mph")
        @@ ("Drivetrain" :> "M xDrive AWD")
        @@ ("Transmission" :> "8-speed M Steptronic")],
    [mk |-> <<"p", "o", "r", "s", "c", "h", "e">>,
     md |-> <<"9", "1", "1", " ", "t", "u", "r", "b", "o">>,
     specs |-> ("Engine" :> "3.7L Twin-Turbo Flat-6")
        @@ ("Power" :> "572 HP @ 6,750 rpm")
        @@ ("Torque" :> "553 lb-ft @ 2,500 rpm")
        @@ ("0-60 mph" :> "2.7 s")
        @@ ("Top Speed" :> "198 mph")
        @@ ("Drivetrain" :> "AWD")
        @@ ("Transmission" :> "8-speed PDK")],
    [mk |-> <<"p", "o", "r", "s", "c", "h", "e">>,
     md |-> <<"9", "1", "1", " ", "t", "u", "r", "b", "o", " ", "s">>,
     specs |-> ("Engine" :> "3.8L Twin-Turbo Flat-6")
        @@ ("Power" :> "640 HP @ 6,750 rpm")
        @@ ("Torque" :> "590 lb-ft @ 2,500 rpm")
        @@ ("0-60 mph" :> "2.6 s")
        @@ ("Top Speed" :> "205 mph")
        @@ ("Drivetrain" :> "AWD")
        @@ ("Transmission" :> "8-speed PDK")],
    [mk |-> <<"n", "i", "s", "s", "a", "n">>,
     md |-> <<"g", "t", "-", "r", " ", "n", "i", "s", "m", "o">>,
     specs |-> ("Engine" :> "3.8L VR38DETT V6 Twin-Turbo")
        @@ ("Power" :> "600 HP @ 6,800 rpm")
        @@ ("Torque" :> "481 lb-ft @ 3,600 rpm")
        @@ ("0-60 mph" :> "2.5 s")
        @@ ("Top Speed" :> "205 mph")
        @@ ("Drivetrain" :> "ATTESA E-TS AWD")
        @@ ("Transmission" :> "6-speed Dual-Clutch")],
    [mk |-> <<"n", "i", "s", "s", "a", "n">>,
     md |-> <<"g", "t", "-", "r">>,
     specs |-> ("Engine" :> "3.8L VR38DETT V6 Twin-Turbo")
        @@ ("Power" :> "565 HP @ 6,800 rpm")
        @@ ("Torque" :> "467 lb-ft @ 3,300 rpm")
        @@ ("0-60 mph" :> "2.9 s")
        @@ ("Top Speed" :> "196 mph")
        @@ ("Drivetrain" :> "ATTESA E-TS AWD")
        @@ ("Transmission" :> "6-speed Dual-Clutch")],
    [mk |-> <<"m", "e", "r", "c", "e", "d", "e", "s", "-", "b", "e", "n", "z">>,
     md |-> <<"a", "m", "g", " ", "g", "t">>,
     specs |-> ("Engine" :> "4.0L V8 Biturbo")
        @@ ("Power" :> "523 HP @ 6,250 rpm")
        @@ ("Torque" :> "494 lb-ft @ 1,900 rpm")
        @@ ("0-60 mph" :> "3.7 s")
        @@ ("Top Speed" :> "193 mph")
        @@ ("Drivetrain" :> "RWD")
        @@ ("Transmission" :> "7-speed AMG DCT")],
    [mk |-> <<"l", "a", "m", "b", "o", "r", "g", "h", "i", "n", "i">>,
     md |-> <<"h", "u", "r", "a", "c", "a", "n">>,
     specs |-> ("Engine" :> "5.2L V10 NA")
        @@ ("Power" :> "631 HP @ 8,000 rpm")
        @@ ("Torque" :> "417 lb-ft @ 6,500 rpm")
        @@ ("0-60 mph" :> "2.9 s")
        @@ ("Top Speed" :> "202 mph")
        @@ ("Drivetrain" :> "AWD")
        @@ ("Transmission" :> "7-speed LDF DCT")],
    [mk |-> <<"f", "e", "r", "r", "a", "r", "i">>,
     md |-> <<"4", "8", "8">>,
     specs |-> ("Engine" :> "3.9L V8 Twin-Turbo")
        @@ ("Power" :> "661 HP @ 8,000 rpm")
        @@ ("Torque" :> "561 lb-ft @ 3,000 rpm")
        @@ ("0-60 mph" :> "2.85 s")
        @@ ("Top Speed" :> "205 mph")
        @@ ("Drivetrain" :> "RWD")
        @@ ("Transmission" :> "7-speed F1 DCT")],
    [mk |-> <<"t", "o", "y", "o", "t", "a">>,
     md |-> <<"s", "u", "p", "r", "a">>,
     specs |-> ("Engine" :> "3.0L B58 Turbo I6")
        @@ ("Power" :> "382 HP @ 5,800 rpm")
        @@ ("Torque" :> "368 lb-ft @ 1,800 rpm")
        @@ ("0-60 mph" :> "3.9 s")
        @@ ("Top Speed" :> "155 mph")
        @@ ("Drivetrain" :> "RWD")
        @@ ("Transmission" :> "8-speed Auto")]
  >>

DEFAULT_DEMO ==
  ("Engine" :> "Turbocharged")
    @@ ("Power" :> "300+ HP")
    @@ ("Torque" :> "300+ lb-ft")
    @@ ("0-60 mph" :> "4.5 s")
    @@ ("Top Speed" :> "155 mph")
    @@ ("Drivetrain" :> "AWD")
    @@ ("Transmission" :> "Automatic")

DbIndex == 1..Len(DEMO_SPECS_DB)

\* (mk, md) in DEMO_SPECS_DB
DbExact(mk, md) ==
  {i \in DbIndex : DEMO_SPECS_DB[i].mk = mk /\ DEMO_SPECS_DB[i].md = md}

\* db_mk == mk and (db_md in md or md in db_md)
DbModelPartial(mk, md) ==
  {i \in DbIndex :
     /\ DEMO_SPECS_DB[i].mk = mk
     /\ \/ IsSubstr(DEMO_SPECS_DB[i].md, md)
        \/ IsSubstr(md, DEMO_SPECS_DB[i].md)}

\* mk in db_mk or db_mk in mk
DbMakePartial(mk) ==
  {i \in DbIndex :
     \/ IsSubstr(mk, DEMO_SPECS_DB[i].mk)
     \/ IsSubstr(DEMO_SPECS_DB[i].mk, mk)}

get_demo_specs_no_exact(make, model) ==
  With(lower(strip(make)), LAMBDA mk :
  With(lower(strip(model)), LAMBDA md :
     IF DbModelPartial(mk, md) # {}
       THEN DEMO_SPECS_DB[Min(DbModelPartial(mk, md))].specs
     ELSE IF DbMakePartial(mk) # {}
       THEN DEMO_SPECS_DB[Min(DbMakePartial(mk))].specs
     ELSE DEFAULT_DEMO))

get_demo_specs_make_first(make, model) ==
  With(lower(strip(make)), LAMBDA mk :
  With(lower(strip(model)), LAMBDA md :
     IF DbExact(mk, md) # {}
       THEN DEMO_SPECS_DB[Min(DbExact(mk, md))].specs
     ELSE IF DbMakePartial(mk) # {}
       THEN DEMO_SPECS_DB[Min(DbMakePartial(mk))].specs
     ELSE IF DbModelPartial(mk, md) # {}
       THEN DEMO_SPECS_DB[Min(DbModelPartial(mk, md))].specs
     ELSE DEFAULT_DEMO))

\* _get_demo_specs: the first return statement reached, each loop returning
\* at the first entry (in dict order) that satisfies its condition.
get_demo_specs(make, model) ==
  With(lower(strip(make)), LAMBDA mk :
  With(lower(strip(model)), LAMBDA md :
     IF DbExact(mk, md) # {}
       THEN DEMO_SPECS_DB[Min(DbExact(mk, md))].specs
     ELSE IF DbModelPartial(mk, md) # {}
       THEN DEMO_SPECS_DB[Min(DbModelPartial(mk, md))].specs
     ELSE IF DbMakePartial(mk) # {}
       THEN DEMO_SPECS_DB[Min(DbMakePartial(mk))].specs
     ELSE DEFAULT_DEMO))

(***************************************************************************)
(* Optional values                                                         *)
(***************************************************************************)
\* None where a dict, a dataclass or a page is expected.
None == [none |-> TRUE]

\* None where a str is expected (no character is spelled "None").
NoneStr == <<"None">>

\* An empty dict.
EmptyDict == [k \in {} |-> ""]

\* bool(s) of an Optional[str]
Truthy(s) == s # NoneStr /\ s # <<>>

\* s or ""
OrEmpty(s) == IF s = NoneStr THEN <<>> ELSE s

(***************************************************************************)
(* URLs (catalog_parser.py).  A URL is kept in parts: kind "make" is       *)
(* /make/<arg>/<sub...>, kind "car" is /car/<arg> ending in .html, kind    *)
(* "search" is /search.php?q=<arg>, kind "home" is the site root, kind     *)
(* "other" is any other path.                                              *)
(***************************************************************************)
Url(kind, arg, sub) == [kind |-> kind, arg |-> arg, sub |-> sub]

CarUrl(path) == Url("car", <<path>>, <<>>)

CATALOG_BASE_URL == Url("home", <<>>, <<>>)

ReplaceChar(s, from, to) ==
  With(s, LAMBDA x : [i \in 1..Len(x) |-> IF x[i] = from THEN to ELSE x[i]])

\* _normalize_make
normalize_make(name) == ReplaceChar(lower(strip(name)), " ", "_")

\* get_make_url
get_make_url(make) == Url("make", normalize_make(make), <<>>)

\* urllib.parse.quote_plus on the characters the inputs use
QuoteChar(c) ==
  CASE c = " " -> "+"
    [] c = "\t" -> "%09"
    [] c = "\n" -> "%0A"
    [] OTHER -> c

quote_plus(s) == With(s, LAMBDA x : [i \in 1..Len(x) |-> QuoteChar(x[i])])

\* get_search_url
get_search_url(query) == Url("search", quote_plus(strip(query)), <<>>)

\* "/car/" in path and ".html" in path
IsCarPath(u) == u.kind = "car"

\* f"/make/{make_lower}/" in path
IsUnderMake(u, make_lower) == u.kind = "make" /\ lower(u.arg) = make_lower

\* len([p for p in path.split("/") if p])
PathParts(u) ==
  CASE u.kind = "make" -> 2 + Len(u.sub)
    [] u.kind = "car" -> 2 + Len(u.sub)
    [] u.kind = "search" -> 1
    [] u.kind = "home" -> 0
    [] OTHER -> Len(u.sub)

KNOWN_CAR_URLS ==
  <<
    [mk |-> <<"a", "u", "d", "i">>,
     md |-> <<"t", "t", " ", "r", "s">>,
     url |-> CarUrl("2018/2470640/audi_tt_rs_coupe_s-tronic.html")],
    [mk |-> <<"a", "u", "d", "i">>,
     md |-> <<"t", "t">>,
     url |-> CarUrl("2018/2470640/audi_tt_rs_coupe_s-tronic.html")],
    [mk |-> <<"b", "m", "w">>,
     md |-> <<"m", "3">>,
     url |-> CarUrl("2025/3317015/bmw_m3_competition_m_xdrive.html")],
    [mk |-> <<"p", "o", "r", "s", "c", "h", "e">>,
     md |-> <<"9", "1", "1", " ", "t", "u", "r", "b", "o">>,
     url |-> CarUrl("2018/2871365/porsche_911_turbo_coupe.html")],
    [mk |-> <<"p", "o", "r", "s", "c", "h", "e">>,
     md |-> <<"9", "1", "1", " ", "t", "u", "r", "b", "o", " ", "s">>,
     url |-> CarUrl("2018/2871365/porsche_911_turbo_coupe.html")],
    [mk |-> <<"p", "o", "r", "s", "c", "h", "e">>,
     md |-> <<"9", "1", "1">>,
     url |-> CarUrl("2018/2871365/porsche_911_turbo_coupe.html")],
    [mk |-> <<"m", "e", "r", "c", "e", "d", "e", "s", "-", "b", "e", "n", "z">>,
     md |-> <<"a", "m", "g", " ", "g", "t">>,
     url |-> CarUrl("2020/2874950/mercedes-amg_gt_c_roadster.html")],
    [mk |-> <<"m", "e", "r", "c", "e", "d", "e", "s">>,
     md |-> <<"a", "m", "g", " ", "g", "t">>,
     url |-> CarUrl("2020/2874950/mercedes-amg_gt_c_roadster.html")],
    [mk |-> <<"n", "i", "s", "s", "a", "n">>,
     md |-> <<"g", "t", "-", "r">>,
     url |-> CarUrl("2016/2183225/nissan_gt-r_nismo.html")],
    [mk |-> <<"n", "i", "s", "s", "a", "n">>,
     md |-> <<"g", "t", "-", "r", " ", "n", "i", "s", "m", "o">>,
     url |-> CarUrl("2016/2183225/nissan_gt-r_nismo.html")]
  >>

KnownIndex == 1..Len(KNOWN_CAR_URLS)

(***************************************************************************)
(* Pages.  A fetched document is kept as what the parser finds in it: its  *)
(* anchors in document order (resolved URL, link text, last path segment   *)
(* as a name), the label/value mapping and photo URL that specification    *)
(* extraction yields, and its title.                                       *)
(***************************************************************************)
Anchor(full, text, slug) == [full |-> full, text |-> text, slug |-> slug]

Page(anchors, attrs, photo, title) ==
  [tag |-> "page", anchors |-> anchors, attrs |-> attrs,
   photo |-> photo, title |-> title]

\* The empty string as a response body.
EmptyHtml == [tag |-> "empty"]

\* bool(doc)
HasHtml(doc) == doc # None /\ doc # EmptyHtml

MAX_LINK_TEXT == 150
MAX_MODELS == 100
MIN_NAME_LEN == 2
MIN_MAKE_PATH_PARTS == 3

\* One iteration of the anchor loop of get_models_from_make_page on the
\* list models (acc) and the set seen.
ScanMakeAnchor(a, make_lower, st) ==
  With(strip(a.text), LAMBDA text :
    IF text = <<>> \/ Len(text) > MAX_LINK_TEXT THEN st
    ELSE IF a.full \in st.seen THEN st
    ELSE IF IsCarPath(a.full)
      THEN [acc |-> Append(st.acc, [url |-> a.full, name |-> text]),
            seen |-> st.seen \cup {a.full}]
    ELSE IF IsUnderMake(a.full, make_lower)
            /\ PathParts(a.full) >= MIN_MAKE_PATH_PARTS
      THEN [acc |-> Append(st.acc, [url |-> a.full, name |-> text]),
            seen |-> st.seen \cup {a.full}]
    ELSE st)

RECURSIVE ScanMakeState(_, _, _)
\* The iterations over anchors in order: those of the first half, then
\* those of the second half from the state the first half left.
ScanMakeState(anchors, make_lower, st) ==
  IF anchors = <<>> THEN st
  ELSE IF Len(anchors) = 1 THEN ScanMakeAnchor(anchors[1], make_lower, st)
  ELSE
    LET h == Len(anchors) \div 2
    IN With(ScanMakeState(SubSeq(anchors, 1, h), make_lower, st),
            LAMBDA mid :
              ScanMakeState(SubSeq(anchors, h + 1, Len(anchors)),
                            make_lower, mid))

\* The anchor loop of get_models_from_make_page: acc collected so far and
\* the URLs seen.
ScanMakeAnchors(anchors, make_lower, acc, seen) ==
  ScanMakeState(anchors, make_lower, [acc |-> acc, seen |-> seen]).acc

\* One iteration of the by_name loop on the names taken and the values out.
DedupOne(m, st) ==
  With(strip(m.name), LAMBDA name :
    IF Len(name) >= MIN_NAME_LEN /\ name \notin st.names
      THEN [names |-> st.names \cup {name}, out |-> Append(st.out, m)]
      ELSE st)

RECURSIVE DedupState(_, _)
DedupState(rest, st) ==
  IF rest = <<>> THEN st
  ELSE IF Len(rest) = 1 THEN DedupOne(rest[1], st)
  ELSE
    LET h == Len(rest) \div 2
    IN With(DedupState(SubSeq(rest, 1, h), st),
            LAMBDA mid : DedupState(SubSeq(rest, h + 1, Len(rest)), mid))

\* The by_name loop of get_models_from_make_page.
DedupByName(rest, names, out) ==
  DedupState(rest, [names |-> names, out |-> out]).out

FirstN(s, n) == SubSeq(s, 1, IF Len(s) < n THEN Len(s) ELSE n)

\* Never truncates the result: faulty variant of get_models_from_make_page.
get_models_from_make_page_uncapped(doc, make) ==
  DedupByName(
    ScanMakeAnchors(doc.anchors, normalize_make(make), <<>>, {}),
    {}, <<>>)

get_models_from_make_page(doc, make) ==
  FirstN(DedupByName(
           ScanMakeAnchors(doc.anchors, normalize_make(make), <<>>, {}),
           {}, <<>>),
         MAX_MODELS)

RECURSIVE ScanSearchAnchors(_, _, _)
\* The anchor loop of get_car_links_from_search_page.
ScanSearchAnchors(anchors, out, seen) ==
  IF anchors = <<>> THEN out
  ELSE
    LET a == Head(anchors)
        text == strip(a.text)
        rest == Tail(anchors)
    IN IF ~IsCarPath(a.full) \/ a.full \in seen
         THEN ScanSearchAnchors(rest, out, seen)
         ELSE ScanSearchAnchors(rest,
                Append(out, [url |-> a.full,
                             name |-> IF text # <<>> THEN text ELSE a.slug]),
                seen \cup {a.full})

get_car_links_from_search_page(doc) ==
  ScanSearchAnchors(doc.anchors, <<>>, {})

\* s.split(sep)[0]
BeforeFirst(s, sep) ==
  IF \E i \in 1..Len(s) : s[i] = sep
    THEN SubSeq(s, 1, Min({i \in 1..Len(s) : s[i] = sep}) - 1)
    ELSE s

MAX_TITLE_LEN == 200

\* Display name refinement of parse_specs_from_car_page.
FullName(doc, make, model) ==
  With(strip(OrEmpty(doc.title)), LAMBDA t :
    IF /\ Truthy(doc.title)
       /\ IsSubstr(lower(make), lower(t))
       /\ Len(t) < MAX_TITLE_LEN
      THEN With(strip(BeforeFirst(BeforeFirst(t, "|"), "-")), LAMBDA cut :
             IF cut # <<>> THEN cut ELSE make \o <<" ">> \o model)
      ELSE make \o <<" ">> \o model)

CarSpecs(make, model, full_name, specs, image_url) ==
  [make |-> make, model |-> model, full_name |-> full_name,
   specs |-> specs, image_url |-> image_url]

parse_specs_from_car_page(doc, make, model) ==
  CarSpecs(make, model, FullName(doc, make, model), doc.attrs, doc.photo)

(***************************************************************************)
(* find_model_by_name: choice among the candidates, then the known URLs    *)
(***************************************************************************)
\* Faulty variant of NameMatches: the name is not lower-cased.
NameMatches_case_sensitive(m, model_lower) ==
  /\ model_lower # <<>>
  /\ \/ IsSubstr(model_lower, m.name)
     \/ IsSubstr(remove_spaces(model_lower), remove_spaces(m.name))

\* model_lower and (model_lower in name
\*                  or model_lower.replace(" ", "") in name.replace(" ", ""))
NameMatches(m, model_lower) ==
  /\ model_lower # <<>>
  /\ \/ IsSubstr(model_lower, lower(m.name))
     \/ IsSubstr(remove_spaces(model_lower), remove_spaces(lower(m.name)))

KnownExact(make_lower, model_lower) ==
  {i \in KnownIndex :
     /\ KNOWN_CAR_URLS[i].mk = make_lower
     /\ KNOWN_CAR_URLS[i].md = model_lower}

\* Faulty variant of KnownPartial: only a stored model inside the query
\* matches.
KnownPartial_stored_in_query(make_lower, model_lower) ==
  {i \in KnownIndex :
     /\ KNOWN_CAR_URLS[i].mk = make_lower
     /\ IsSubstr(KNOWN_CAR_URLS[i].md, model_lower)}

KnownPartial(make_lower, model_lower) ==
  {i \in KnownIndex :
     /\ KNOWN_CAR_URLS[i].mk = make_lower
     /\ \/ model_lower = <<>>
        \/ IsSubstr(KNOWN_CAR_URLS[i].md, model_lower)
        \/ IsSubstr(model_lower, KNOWN_CAR_URLS[i].md)}

Unknown == <<"U","n","k","n","o","w","n">>

\* Lines 399-420 of find_model_by_name, given the candidates found.
select_model(cands, make, model_query) ==
  With(normalize_make(make), LAMBDA make_lower :
  With(lower(strip(OrEmpty(model_query))), LAMBDA model_lower :
  With({i \in 1..Len(cands) : NameMatches(cands[i], model_lower)}, LAMBDA hits :
  With(KnownExact(make_lower, model_lower), LAMBDA exact :
  With(KnownPartial(make_lower, model_lower), LAMBDA partial :
     IF cands # <<>>
       THEN IF hits # {} THEN cands[Min(hits)] ELSE cands[1]
     ELSE IF model_lower # <<>> /\ exact # {}
       THEN [url |-> KNOWN_CAR_URLS[Min(exact)].url,
             name |-> IF Truthy(model_query) THEN model_query ELSE Unknown]
     ELSE IF partial # {}
       THEN [url |-> KNOWN_CAR_URLS[Min(partial)].url,
             name |-> IF Truthy(model_query) THEN model_query
                      ELSE KNOWN_CAR_URLS[Min(partial)].md]
     ELSE None)))))

(***************************************************************************)
(* Inputs of the lookup: base strings, re-cased and padded with whitespace *)
(***************************************************************************)
\* Longest run of whitespace put before or after an input string.
MaxPad == 1

UpperChar(c) ==
  IF \E i \in Letters : LowerCase[i] = c
    THEN UpperCase[CHOOSE i \in Letters : LowerCase[i] = c]
    ELSE c

CaseModes == {"asis", "upper", "capital"}

Recase(s, mode) ==
  CASE mode = "asis" -> s
    [] mode = "upper" -> [i \in 1..Len(s) |-> UpperChar(s[i])]
    [] mode = "capital" ->
         [i \in 1..Len(s) |-> IF i = 1 THEN UpperChar(s[i]) ELSE s[i]]

WsPattern == <<" ", "\t", "\n">>
WsRun(n) == [i \in 1..n |-> WsPattern[((i - 1) % Len(WsPattern)) + 1]]

Pad(s, l, r) == WsRun(l) \o s \o WsRun(r)

Variants(s) ==
  {Pad(Recase(s, m), l, r) : m \in CaseModes, l \in 0..MaxPad, r \in 0..MaxPad}

\* Makes and models that are not keys of the knowledge base.
ExtraMakes ==
  { <<"m","e","r","c","e","d","e","s">>,
    <<"b","m","w"," ","g","r","o","u","p">>,
    <<"v","o","l","v","o">>,
    <<>> }

ExtraModels ==
  { <<"t","t">>,
    <<"t","u","r","b","o"," ","s">>,
    <<"g","t","-","r"," ","x">>,
    <<"x","5">>,
    <<"s","p","o","r","t">>,
    <<>> }

BaseMakes == {DEMO_SPECS_DB[i].mk : i \in DbIndex} \cup ExtraMakes
BaseModels == {DEMO_SPECS_DB[i].md : i \in DbIndex} \cup ExtraModels

LookupMakes == UNION {Variants(s) : s \in BaseMakes}
LookupModels == UNION {Variants(s) : s \in BaseModels}


(***************************************************************************)
(* Configuration (config.py, browser_fetcher.py)                           *)
(***************************************************************************)
REQUEST_RETRIES == 3

(***************************************************************************)
(* I/O events, appended to io in the order the calls are made              *)
(***************************************************************************)
Ev(op, target, note) == [op |-> op, url |-> target, note |-> note]

\* Return from the current function to the address on top of the stack.
Return == pc' = Head(stack) /\ stack' = Tail(stack)

Call(callee, ret) == pc' = callee /\ stack' = <<ret>> \o stack

(***************************************************************************)
(* Responses of the catalog site                                           *)
(***************************************************************************)
N_320i == <<"B","M","W"," ","3","2","0","i">>
N_M3Competition ==
  <<"B","M","W"," ","M","3"," ","C","o","m","p","e","t","i","t","i","o","n">>
N_Home == <<"H","o","m","e">>
T_CarTitle ==
  <<"A","u","d","i"," ","T","T"," ","R","S"," ","C","o","u","p","e"," ",
    "|"," ","s","p","e","c","s">>

Car_320i == CarUrl("2020/1/bmw_320i.html")
Car_M3 == CarUrl("2025/3317015/bmw_m3_competition_m_xdrive.html")
Photo_1 == Url("other", <<"pic">>, <<"car.jpg">>)

\* A page with nothing to extract (a block page, an empty listing).
PageBlank == Page(<<>>, EmptyDict, None, NoneStr)

\* A listing or result page: a navigation link, then two vehicle links.
PageLinks ==
  Page(<< Anchor(CATALOG_BASE_URL, N_Home, <<>>),
          Anchor(Car_320i, N_320i, <<"b","m","w"," ","3","2","0","i">>),
          Anchor(Car_M3, N_M3Competition, <<"b","m","w"," ","m","3">>) >>,
       EmptyDict, None, NoneStr)

\* A vehicle page with specification rows, a photo and a title.
PageCar ==
  Page(<<>>,
       ("Engine" :> "2.5L Turbo") @@ ("Max power" :> "400 HP"),
       Photo_1, T_CarTitle)

\* A vehicle page whose rows are all rejected, with a photo.
PageCarNoSpecs == Page(<<>>, EmptyDict, Photo_1, NoneStr)

\* The documents the site may serve for a URL.
PagesFor(u) ==
  IF u.kind = "car"
    THEN {PageBlank, PageCar, PageCarNoSpecs}
    ELSE {PageBlank, PageLinks}

(***************************************************************************)
(* Inputs of run                                                           *)
(***************************************************************************)
\* Longest whitespace-only make.
MaxBlank == 2

S_Audi == <<"A","u","d","i">>
S_bmw == <<" ","b","m","w","\t">>
S_Volvo == <<"V","o","l","v","o">>
S_TTRS == <<"T","T"," ","R","S">>
S_M3 == <<"M","3">>
S_Sport == <<"S","p","o","r","t">>

RunMakes == {WsRun(n) : n \in 0..MaxBlank} \cup {S_Audi, S_bmw, S_Volvo}
RunModels == {NoneStr, <<>>, S_TTRS, S_M3}

(***************************************************************************)
(* fetch_html_with_browser (browser_fetcher.py), called through            *)
(* _fetch_via_browser with visit_home_first=True.  The result is left in   *)
(* html and control returns to the caller.                                 *)
(***************************************************************************)
\* Faulty variant of BrowserFails: the session is left open on a failure.
BrowserFails_no_close(events) ==
  /\ io' = io \o events
  /\ browser' = browser
  /\ html' = None
  /\ Return

\* finally: browser.close(), then the except clause: return None
BrowserFails(events) ==
  /\ io' = io \o events \o <<Ev("close", url, "")>>
  /\ browser' = browser - 1
  /\ html' = None
  /\ Return

Browser_Launch ==
  /\ pc = "browser"
  /\ IF ~playwright
       THEN /\ html' = None
            /\ Return
            /\ UNCHANGED <<io, browser>>
       ELSE \E ok \in BOOLEAN :
              /\ io' = Append(io, Ev("launch", url, ""))
              /\ IF ok
                   THEN /\ browser' = browser + 1
                        /\ pc' = "browser_home"
                        /\ UNCHANGED <<html, stack>>
                   ELSE /\ html' = None
                        /\ Return
                        /\ UNCHANGED browser
  /\ UNCHANGED <<inVars, brand, models, model_link, car_specs, url,
                 fcs_model, attempt, rendered, raised, lkVars, imgVars>>

\* browser.new_page and, unless the target is the home page, the visit of
\* the home page; either may raise.
Browser_Home ==
  /\ pc = "browser_home"
  /\ \/ BrowserFails(<<>>)
     \/ IF url # CATALOG_BASE_URL
          THEN \E ok \in BOOLEAN :
                 IF ok
                   THEN /\ io' = io \o <<Ev("goto", CATALOG_BASE_URL, ""),
                                         Ev("sleep", url, "WAIT_AFTER_HOME_SEC")>>
                        /\ pc' = "browser_goto"
                        /\ UNCHANGED <<html, stack, browser>>
                   ELSE BrowserFails(<<Ev("goto", CATALOG_BASE_URL, "")>>)
          ELSE /\ pc' = "browser_goto"
               /\ UNCHANGED <<io, html, stack, browser>>
  /\ UNCHANGED <<inVars, brand, models, model_link, car_specs, url,
                 fcs_model, attempt, rendered, raised, lkVars, imgVars>>

Browser_Goto ==
  /\ pc = "browser_goto"
  /\ \E ok \in BOOLEAN :
       IF ok
         THEN /\ io' = Append(io, Ev("goto", url, ""))
              /\ pc' = "browser_idle"
              /\ UNCHANGED <<html, stack, browser>>
         ELSE BrowserFails(<<Ev("goto", url, "")>>)
  /\ UNCHANGED <<inVars, brand, models, model_link, car_specs, url,
                 fcs_model, attempt, rendered, raised, lkVars, imgVars>>

\* Faulty variant of Browser_Idle: a timeout of the wait ends the fetch.
Browser_Idle_timeout_fails ==
  /\ pc = "browser_idle"
  /\ \E timed_out \in BOOLEAN :
       IF timed_out
         THEN BrowserFails(<<Ev("wait_idle", url, "timeout")>>)
         ELSE /\ io' = Append(io, Ev("wait_idle", url, "idle"))
              /\ pc' = "browser_content"
              /\ UNCHANGED <<html, stack, browser>>
  /\ UNCHANGED <<inVars, brand, models, model_link, car_specs, url,
                 fcs_model, attempt, rendered, raised, lkVars, imgVars>>

\* wait_for_load_state("networkidle"): a timeout is caught and ignored.
Browser_Idle ==
  /\ pc = "browser_idle"
  /\ \E timed_out \in BOOLEAN :
       /\ io' = Append(io, Ev("wait_idle", url,
                               IF timed_out THEN "timeout" ELSE "idle"))
       /\ pc' = "browser_content"
  /\ UNCHANGED <<inVars, brand, models, model_link, car_specs, url, html,
                 stack, browser, fcs_model, attempt, rendered, raised, lkVars, imgVars>>

Browser_Content ==
  /\ pc = "browser_content"
  /\ \E r \in {None, EmptyHtml} \cup PagesFor(url) :
       IF r = None
         THEN BrowserFails(<<Ev("sleep", url, "WAIT_AFTER_LOAD_SEC"),
                             Ev("content", url, "error")>>)
         ELSE /\ io' = io \o <<Ev("sleep", url, "WAIT_AFTER_LOAD_SEC"),
                               Ev("content", url, "ok"),
                               Ev("close", url, "")>>
              /\ browser' = browser - 1
              /\ html' = r
              /\ Return
  /\ UNCHANGED <<inVars, brand, models, model_link, car_specs, url,
                 fcs_model, attempt, rendered, raised, lkVars, imgVars>>

(***************************************************************************)
(* fetch_models_for_make, fetch_car_links_via_search (catalog_parser.py)   *)
(***************************************************************************)
FetchModels_Call ==
  /\ pc = "fetch_models_for_make"
  /\ url' = get_make_url(brand)
  /\ Call("browser", "fetch_models_ret")
  /\ UNCHANGED <<inVars, brand, models, model_link, car_specs, html,
                 fcs_model, attempt, browser, io, rendered, raised, lkVars, imgVars>>

FetchModels_Return ==
  /\ pc = "fetch_models_ret"
  /\ IF ~HasHtml(html)
       THEN /\ models' = <<>>
            /\ UNCHANGED io
       ELSE /\ io' = Append(io, Ev("sleep", url, "REQUEST_DELAY_SEC"))
            /\ models' = get_models_from_make_page(html, brand)
  /\ Return
  /\ UNCHANGED <<inVars, brand, model_link, car_specs, html, url,
                 fcs_model, attempt, browser, rendered, raised, lkVars, imgVars>>

FetchLinks_Call ==
  /\ pc = "fetch_car_links_via_search"
  /\ url' = get_search_url(strip(brand \o <<" ">> \o model_in))
  /\ Call("browser", "fetch_links_ret")
  /\ UNCHANGED <<inVars, brand, models, model_link, car_specs, html,
                 fcs_model, attempt, browser, io, rendered, raised, lkVars, imgVars>>

FetchLinks_Return ==
  /\ pc = "fetch_links_ret"
  /\ IF ~HasHtml(html)
       THEN /\ models' = <<>>
            /\ UNCHANGED io
       ELSE /\ io' = Append(io, Ev("sleep", url, "REQUEST_DELAY_SEC"))
            /\ models' = get_car_links_from_search_page(html)
  /\ Return
  /\ UNCHANGED <<inVars, brand, model_link, car_specs, html, url,
                 fcs_model, attempt, browser, rendered, raised, lkVars, imgVars>>

(***************************************************************************)
(* fetch_car_specs and _get_url (catalog_parser.py)                        *)
(***************************************************************************)
FetchSpecs_Browser ==
  /\ pc = "fetch_car_specs"
  /\ Call("browser", "fetch_specs_browsed")
  /\ UNCHANGED <<inVars, brand, models, model_link, car_specs, html, url,
                 fcs_model, attempt, browser, io, rendered, raised, lkVars, imgVars>>

\* Faulty variant of FetchSpecs_AfterBrowser: the network path is taken
\* whatever the browser returned.
FetchSpecs_AfterBrowser_always_network ==
  /\ pc = "fetch_specs_browsed"
  /\ pc' = "get_url"
  /\ attempt' = 1
  /\ UNCHANGED <<inVars, brand, models, model_link, car_specs, html, url,
                 stack, fcs_model, browser, io, rendered, raised, lkVars, imgVars>>

FetchSpecs_AfterBrowser ==
  /\ pc = "fetch_specs_browsed"
  /\ IF ~HasHtml(html)
       THEN /\ pc' = "get_url"
            /\ attempt' = 1
       ELSE /\ pc' = "fetch_specs_parse"
            /\ UNCHANGED attempt
  /\ UNCHANGED <<inVars, brand, models, model_link, car_specs, html, url,
                 stack, fcs_model, browser, io, rendered, raised, lkVars, imgVars>>

\* Faulty variant of GetUrl_Attempt: status 403 is retried like a failure.
GetUrl_Attempt_retry_on_403 ==
  /\ pc = "get_url"
  /\ attempt <= REQUEST_RETRIES
  /\ \E outcome \in {"RequestException", "403", "200"} :
       /\ io' = io \o (IF attempt > 1
                         THEN <<Ev("sleep", url, "REQUEST_DELAY_SEC")>>
                         ELSE <<>>)
                   \o <<Ev("get", url, outcome)>>
       /\ IF outcome = "200"
            THEN /\ \E body \in {EmptyHtml} \cup PagesFor(url) :
                      html' = body
                 /\ pc' = "fetch_specs_parse"
                 /\ UNCHANGED <<attempt, stack>>
            ELSE /\ attempt' = attempt + 1
                 /\ UNCHANGED <<pc, stack, html>>
  /\ UNCHANGED <<inVars, brand, models, model_link, car_specs, url,
                 fcs_model, browser, rendered, raised, lkVars, imgVars>>

\* Faulty variant of GetUrl_Attempt: a failed request is not caught.
GetUrl_Attempt_uncaught ==
  /\ pc = "get_url"
  /\ attempt <= REQUEST_RETRIES
  /\ \E outcome \in {"RequestException", "403", "200"} :
       /\ io' = io \o (IF attempt > 1
                         THEN <<Ev("sleep", url, "REQUEST_DELAY_SEC")>>
                         ELSE <<>>)
                   \o <<Ev("get", url, outcome)>>
       /\ CASE outcome = "RequestException" ->
                   /\ raised' = "RequestException"
                   /\ pc' = "raised"
                   /\ UNCHANGED <<attempt, stack, html>>
            [] outcome = "403" ->
                   /\ Call("browser", "fetch_specs_parse")
                   /\ UNCHANGED <<attempt, html, raised>>
            [] outcome = "200" ->
                   /\ \E body \in {EmptyHtml} \cup PagesFor(url) :
                        html' = body
                   /\ pc' = "fetch_specs_parse"
                   /\ UNCHANGED <<attempt, stack, raised>>
  /\ UNCHANGED <<inVars, brand, models, model_link, car_specs, url,
                 fcs_model, browser, rendered, lkVars, imgVars>>

\* One iteration of the retry loop of _get_url.
\* Faulty variant of GetUrl_Attempt: the browser is started after a
\* successful GET as well.
GetUrl_Attempt_browser_after_200 ==
  /\ pc = "get_url"
  /\ attempt <= REQUEST_RETRIES
  /\ \E outcome \in {"RequestException", "403", "200"} :
       /\ io' = io \o (IF attempt > 1
                         THEN <<Ev("sleep", url, "REQUEST_DELAY_SEC")>>
                         ELSE <<>>)
                   \o <<Ev("get", url, outcome)>>
       /\ CASE outcome = "RequestException" ->
                   /\ attempt' = attempt + 1
                   /\ UNCHANGED <<pc, stack, html>>
            [] OTHER ->
                   /\ Call("browser", "fetch_specs_parse")
                   /\ UNCHANGED <<attempt, html>>
  /\ UNCHANGED <<inVars, brand, models, model_link, car_specs, url,
                 fcs_model, browser, rendered, raised, lkVars, imgVars>>

GetUrl_Attempt ==
  /\ pc = "get_url"
  /\ attempt <= REQUEST_RETRIES
  /\ \E outcome \in {"RequestException", "403", "200"} :
       /\ io' = io \o (IF attempt > 1
                         THEN <<Ev("sleep", url, "REQUEST_DELAY_SEC")>>
                         ELSE <<>>)
                   \o <<Ev("get", url, outcome)>>
       /\ CASE outcome = "RequestException" ->
                   /\ attempt' = attempt + 1
                   /\ UNCHANGED <<pc, stack, html>>
            [] outcome = "403" ->
                   /\ Call("browser", "fetch_specs_parse")
                   /\ UNCHANGED <<attempt, html>>
            [] outcome = "200" ->
                   /\ \E body \in {EmptyHtml} \cup PagesFor(url) :
                        html' = body
                   /\ pc' = "fetch_specs_parse"
                   /\ UNCHANGED <<attempt, stack>>
  /\ UNCHANGED <<inVars, brand, models, model_link, car_specs, url,
                 fcs_model, browser, rendered, raised, lkVars, imgVars>>

\* After the loop of _get_url: return _fetch_via_browser(url)
GetUrl_Fallback ==
  /\ pc = "get_url"
  /\ attempt > REQUEST_RETRIES
  /\ Call("browser", "fetch_specs_parse")
  /\ UNCHANGED <<inVars, brand, models, model_link, car_specs, html, url,
                 fcs_model, attempt, browser, io, rendered, raised, lkVars, imgVars>>

\* Faulty variant of FetchSpecs_Parse: a page without attributes gives None.
FetchSpecs_Parse_none_if_empty ==
  /\ pc = "fetch_specs_parse"
  /\ car_specs' = IF ~HasHtml(html) \/ html.attrs = EmptyDict
                    THEN None
                    ELSE parse_specs_from_car_page(html, brand, fcs_model)
  /\ Return
  /\ UNCHANGED <<inVars, brand, models, model_link, html, url,
                 fcs_model, attempt, browser, io, rendered, raised, lkVars, imgVars>>

FetchSpecs_Parse ==
  /\ pc = "fetch_specs_parse"
  /\ car_specs' = IF ~HasHtml(html)
                    THEN None
                    ELSE parse_specs_from_car_page(html, brand, fcs_model)
  /\ Return
  /\ UNCHANGED <<inVars, brand, models, model_link, html, url,
                 fcs_model, attempt, browser, io, rendered, raised, lkVars, imgVars>>

(***************************************************************************)
(* find_model_by_name (catalog_parser.py), as called by run                *)
(***************************************************************************)
FindModel_Listing ==
  /\ pc = "find_model_by_name"
  /\ Call("fetch_models_for_make", "find_model_listed")
  /\ UNCHANGED <<inVars, brand, models, model_link, car_specs, html, url,
                 fcs_model, attempt, browser, io, rendered, raised, lkVars, imgVars>>

\* Faulty variant of FindModel_AfterListing: the search is made whatever
\* the listing returned.
FindModel_AfterListing_always_search ==
  /\ pc = "find_model_listed"
  /\ Call("fetch_car_links_via_search", "find_model_select")
  /\ UNCHANGED <<inVars, brand, models, model_link, car_specs, html, url,
                 fcs_model, attempt, browser, io, rendered, raised, lkVars, imgVars>>

\* if not models and model_query: models = fetch_car_links_via_search(...)
FindModel_AfterListing ==
  /\ pc = "find_model_listed"
  /\ IF models = <<>> /\ Truthy(model_in)
       THEN Call("fetch_car_links_via_search", "find_model_select")
       ELSE /\ pc' = "find_model_select"
            /\ UNCHANGED stack
  /\ UNCHANGED <<inVars, brand, models, model_link, car_specs, html, url,
                 fcs_model, attempt, browser, io, rendered, raised, lkVars, imgVars>>

FindModel_Select ==
  /\ pc = "find_model_select"
  /\ model_link' = select_model(models, brand, model_in)
  /\ pc' = "run_found"
  /\ UNCHANGED <<inVars, brand, models, car_specs, html, url, stack,
                 fcs_model, attempt, browser, io, rendered, raised, lkVars, imgVars>>

(***************************************************************************)
(* run (main.py)                                                           *)
(***************************************************************************)
FallbackSpecs_generic(make, model) ==
  CarSpecs(make, model, make \o <<" ">> \o model, DEFAULT_DEMO, None)

FallbackSpecs(make, model) ==
  CarSpecs(make, model, make \o <<" ">> \o model,
           get_demo_specs(make, model), None)

Run_Validate_unchecked ==
  /\ pc = "run"
  /\ brand' = strip(brand_in)
  /\ pc' = IF Truthy(model_in) THEN "find_model_by_name" ELSE "run_make_only"
  /\ UNCHANGED <<inVars, models, model_link, car_specs, html, url, stack,
                 fcs_model, attempt, browser, io, rendered, raised, lkVars, imgVars>>

\* brand = brand.strip(); if not brand: raise ValueError
Run_Validate ==
  /\ pc = "run"
  /\ brand' = strip(brand_in)
  /\ IF strip(brand_in) = <<>>
       THEN /\ raised' = "ValueError"
            /\ pc' = "raised"
       ELSE /\ pc' = IF Truthy(model_in)
                       THEN "find_model_by_name"
                       ELSE "run_make_only"
            /\ UNCHANGED raised
  /\ UNCHANGED <<inVars, models, model_link, car_specs, html, url, stack,
                 fcs_model, attempt, browser, io, rendered, lkVars, imgVars>>

\* if model_link: car_specs = fetch_car_specs(brand, model, model_link["url"])
Run_FetchSpecs ==
  /\ pc = "run_found"
  /\ IF model_link # None
       THEN /\ fcs_model' = model_in
            /\ url' = model_link.url
            /\ Call("fetch_car_specs", "run_backfill")
       ELSE /\ pc' = "run_fallback"
            /\ UNCHANGED <<fcs_model, url, stack>>
  /\ UNCHANGED <<inVars, brand, models, model_link, car_specs, html,
                 attempt, browser, io, rendered, raised, lkVars, imgVars>>

\* Faulty variant of Run_Backfill: the generic default is filled in.
Run_Backfill_default ==
  /\ pc = "run_backfill"
  /\ car_specs' = IF car_specs # None /\ car_specs.specs = EmptyDict
                    THEN [car_specs EXCEPT !.specs = DEFAULT_DEMO]
                    ELSE car_specs
  /\ pc' = "run_fallback"
  /\ UNCHANGED <<inVars, brand, models, model_link, html, url, stack,
                 fcs_model, attempt, browser, io, rendered, raised, lkVars, imgVars>>

\* Faulty variant of Run_Backfill: the attributes are replaced whether or
\* not the page gave any.
Run_Backfill_always ==
  /\ pc = "run_backfill"
  /\ car_specs' = IF car_specs # None
                    THEN [car_specs EXCEPT
                            !.specs = get_demo_specs(brand, model_in)]
                    ELSE car_specs
  /\ pc' = "run_fallback"
  /\ UNCHANGED <<inVars, brand, models, model_link, html, url, stack,
                 fcs_model, attempt, browser, io, rendered, raised, lkVars, imgVars>>

\* if car_specs and not car_specs.specs: car_specs.specs = _get_demo_specs(...)
Run_Backfill ==
  /\ pc = "run_backfill"
  /\ car_specs' = IF car_specs # None /\ car_specs.specs = EmptyDict
                    THEN [car_specs EXCEPT
                            !.specs = get_demo_specs(brand, model_in)]
                    ELSE car_specs
  /\ pc' = "run_fallback"
  /\ UNCHANGED <<inVars, brand, models, model_link, html, url, stack,
                 fcs_model, attempt, browser, io, rendered, raised, lkVars, imgVars>>

Run_Fallback_skipped ==
  /\ pc = "run_fallback"
  /\ pc' = "render"
  /\ UNCHANGED <<inVars, brand, models, model_link, car_specs, html, url,
                 stack, fcs_model, attempt, browser, io, rendered, raised,
                 lkVars, imgVars>>

\* if not car_specs: car_specs = CarSpecs(... specs=_get_demo_specs(...))
Run_Fallback ==
  /\ pc = "run_fallback"
  /\ car_specs' = IF car_specs = None
                    THEN FallbackSpecs(brand, model_in)
                    ELSE car_specs
  /\ pc' = "render"
  /\ UNCHANGED <<inVars, brand, models, model_link, html, url, stack,
                 fcs_model, attempt, browser, io, rendered, raised, lkVars, imgVars>>

\* else: models = fetch_models_for_make(brand)
RunMakeOnly_Listing ==
  /\ pc = "run_make_only"
  /\ Call("fetch_models_for_make", "make_only_listed")
  /\ UNCHANGED <<inVars, brand, models, model_link, car_specs, html, url,
                 fcs_model, attempt, browser, io, rendered, raised, lkVars, imgVars>>

\* if models: car_specs = fetch_car_specs(brand, first["name"], first["url"])
RunMakeOnly_First ==
  /\ pc = "make_only_listed"
  /\ IF models # <<>>
       THEN /\ fcs_model' = models[1].name
            /\ url' = models[1].url
            /\ Call("fetch_car_specs", "make_only_fallback")
       ELSE /\ pc' = "make_only_fallback"
            /\ UNCHANGED <<fcs_model, url, stack>>
  /\ UNCHANGED <<inVars, brand, models, model_link, car_specs, html,
                 attempt, browser, io, rendered, raised, lkVars, imgVars>>

\* "TT RS" if brand.lower() == "audi" else "Sport"
FallbackModel(make) ==
  IF lower(make) = <<"a","u","d","i">> THEN S_TTRS ELSE S_Sport

RunMakeOnly_Fallback_none_only ==
  /\ pc = "make_only_fallback"
  /\ car_specs' = IF car_specs = None
                    THEN FallbackSpecs(brand, FallbackModel(brand))
                    ELSE car_specs
  /\ pc' = "render"
  /\ UNCHANGED <<inVars, brand, models, model_link, html, url, stack,
                 fcs_model, attempt, browser, io, rendered, raised, lkVars, imgVars>>

\* Faulty variant of RunMakeOnly_Fallback: a specification without
\* attributes keeps its model and photo and only gets attributes.
RunMakeOnly_Fallback_backfills ==
  /\ pc = "make_only_fallback"
  /\ car_specs' = IF car_specs = None
                    THEN FallbackSpecs(brand, FallbackModel(brand))
                    ELSE IF car_specs.specs = EmptyDict
                      THEN [car_specs EXCEPT
                              !.specs = get_demo_specs(brand, car_specs.model)]
                      ELSE car_specs
  /\ pc' = "render"
  /\ UNCHANGED <<inVars, brand, models, model_link, html, url, stack,
                 fcs_model, attempt, browser, io, rendered, raised, lkVars, imgVars>>

\* if not car_specs or not car_specs.specs: car_specs = CarSpecs(...)
RunMakeOnly_Fallback ==
  /\ pc = "make_only_fallback"
  /\ car_specs' = IF car_specs = None \/ car_specs.specs = EmptyDict
                    THEN FallbackSpecs(brand, FallbackModel(brand))
                    ELSE car_specs
  /\ pc' = "render"
  /\ UNCHANGED <<inVars, brand, models, model_link, html, url, stack,
                 fcs_model, attempt, browser, io, rendered, raised, lkVars, imgVars>>

\* safe_model = car_specs.model.replace(...)  (an attribute of None raises);
\* return generate_poster(car_specs, out_path)
Run_Render ==
  /\ pc = "render"
  /\ IF car_specs = None
       THEN /\ raised' = "AttributeError"
            /\ pc' = "raised"
            /\ UNCHANGED rendered
       ELSE /\ rendered' = Append(rendered, car_specs)
            /\ pc' = "done"
            /\ UNCHANGED raised
  /\ UNCHANGED <<inVars, brand, models, model_link, car_specs, html, url,
                 stack, fcs_model, attempt, browser, io, lkVars, imgVars>>

(***************************************************************************)
(* Spec: one call of run                                                   *)
(***************************************************************************)
\* The lookup variables while no stand-alone lookup is in progress.
LookupIdle ==
  /\ lk_make = <<>>
  /\ lk_model = <<>>
  /\ lk_result = None

\* The variables of find_car_image before it is called.
ImageFresh ==
  /\ img_calls = <<>>
  /\ img_returns = <<>>
  /\ img_left = 0
  /\ img_dl = None
  /\ img = None
  /\ img_caught = {}
  /\ img_result = None
  /\ img_raised = "no"

\* The variables of find_car_image while it is not in use.
ImageIdle ==
  /\ img_url = None
  /\ api_key = FALSE
  /\ openai_ok = FALSE
  /\ ImageFresh

\* The state of run before its first statement.
RunFresh ==
  /\ brand = NoneStr
  /\ models = <<>>
  /\ model_link = None
  /\ car_specs = None
  /\ html = None
  /\ url = None
  /\ stack = <<>>
  /\ fcs_model = NoneStr
  /\ attempt = 0
  /\ browser = 0
  /\ io = <<>>
  /\ rendered = <<>>
  /\ raised = "no"

Init ==
  /\ pc = "run"
  /\ brand_in \in RunMakes
  /\ model_in \in RunModels
  /\ playwright \in BOOLEAN
  /\ RunFresh
  /\ LookupIdle
  /\ ImageIdle

Next ==
  \/ Run_Validate
  \/ FindModel_Listing
  \/ FindModel_AfterListing
  \/ FindModel_Select
  \/ Run_FetchSpecs
  \/ Run_Backfill
  \/ Run_Fallback
  \/ RunMakeOnly_Listing
  \/ RunMakeOnly_First
  \/ RunMakeOnly_Fallback
  \/ Run_Render
  \/ FetchModels_Call
  \/ FetchModels_Return
  \/ FetchLinks_Call
  \/ FetchLinks_Return
  \/ FetchSpecs_Browser
  \/ FetchSpecs_AfterBrowser
  \/ GetUrl_Attempt
  \/ GetUrl_Fallback
  \/ FetchSpecs_Parse
  \/ Browser_Launch
  \/ Browser_Home
  \/ Browser_Goto
  \/ Browser_Idle
  \/ Browser_Content

Spec == Init /\ [][Next]_vars

\* Every I/O call returns (each has a timeout), so the thread always takes
\* its next step.
FairSpec == Spec /\ WF_vars(Next)

(***************************************************************************)
(* SpecLookup: _get_demo_specs applied to one (make, model)                *)
(***************************************************************************)
LookupInit ==
  /\ pc = "lookup"
  /\ lk_make \in LookupMakes
  /\ lk_model \in LookupModels
  /\ lk_result = None
  /\ brand_in = <<>>
  /\ model_in = NoneStr
  /\ playwright = FALSE
  /\ RunFresh
  /\ ImageIdle

LookupCall ==
  /\ pc = "lookup"
  /\ lk_result' = get_demo_specs(lk_make, lk_model)
  /\ pc' = "lookup_done"
  /\ UNCHANGED <<lk_make, lk_model, inVars, runVars, imgVars>>

LookupNext == LookupCall

SpecLookup == LookupInit /\ [][LookupNext]_vars

(***************************************************************************)
(* image_finder.py: download_image and the four steps of find_car_image    *)
(***************************************************************************)

MIN_W == 300
MIN_H == 180
BING_MAX_URLS == 10
DDG_MAX_RESULTS == 5

\* Most candidates the model lets one search step return.
MaxUrls == 2

\* A decoded picture of the given size.
Image(w, h) == [w |-> w, h |-> h]

\* What a download can receive: a failure (a request error, an HTTP error
\* status, bytes that are no picture) or a picture of some size.
DownloadFailed == [failed |-> TRUE]
ImageWidths == {MIN_W - 1, MIN_W, MIN_W + 100}
ImageHeights == {MIN_H - 1, MIN_H, MIN_H + 70}
Downloads ==
  {DownloadFailed} \cup {Image(w, h) : w \in ImageWidths, h \in ImageHeights}

\* Faulty variant of download_image: only the width is checked.
download_image_width_only(d) ==
  IF d = DownloadFailed THEN None
  ELSE IF d.w < MIN_W THEN None
  ELSE d

\* download_image: None on any exception and for a picture below the
\* minimum size, the picture otherwise.
download_image(d) ==
  IF d = DownloadFailed THEN None
  ELSE IF d.w < MIN_W \/ d.h < MIN_H THEN None
  ELSE d

\* The steps in the order find_car_image calls them.
IMAGE_STEPS == <<"from_catalog_url", "from_bing_search",
                 "from_duckduckgo_search", "from_openai_dalle">>

\* Leaves of all image actions.
ImgKeep == UNCHANGED <<inVars, runVars, lkVars, img_url, api_key, openai_ok,
                       img_raised>>

\* The steps that have caught an exception, after a download that received d
\* in the given step (download_image catches its own).
Caught(step, d) ==
  IF d = DownloadFailed THEN img_caught \cup {step} ELSE img_caught

\* A step returns value v to find_car_image.
StepReturns(v, next_pc) ==
  /\ img' = v
  /\ pc' = next_pc

\* find_car_image line 194 with from_catalog_url: no download without a URL.
Img_Catalog ==
  /\ pc = "find_car_image"
  /\ img_calls' = Append(img_calls, "from_catalog_url")
  /\ IF img_url = None
       THEN /\ StepReturns(None, "catalog_returned")
            /\ UNCHANGED <<img_dl, img_caught>>
       ELSE \E d \in Downloads :
              /\ img_dl' = d
              /\ img_caught' = Caught("from_catalog_url", d)
              /\ StepReturns(download_image(d), "catalog_returned")
  /\ UNCHANGED <<img_returns, img_left, img_result>>
  /\ ImgKeep

\* Faulty variant of Img_StepDone: a picture found by a step does not end the search.
Img_StepDone_no_return(at, next_pc) ==
  /\ pc = at
  /\ img_returns' = Append(img_returns, img)
  /\ pc' = next_pc
  /\ img_result' = img_result
  /\ UNCHANGED <<img_calls, img_left, img_dl, img, img_caught>>
  /\ ImgKeep

\* find_car_image lines 195-196, 200-201, 205-206: return a picture a step
\* found, go on to the next step otherwise.
Img_StepDone(at, next_pc) ==
  /\ pc = at
  /\ img_returns' = Append(img_returns, img)
  /\ IF img # None
       THEN /\ img_result' = img
            /\ pc' = "image_done"
       ELSE /\ pc' = next_pc
            /\ img_result' = img_result
  /\ UNCHANGED <<img_calls, img_left, img_dl, img, img_caught>>
  /\ ImgKeep

Img_AfterCatalog == Img_StepDone("catalog_returned", "from_bing_search")

\* Faulty variant of Img_BingSearch: a failed search request leaves the step.
Img_BingSearch_raises ==
  /\ pc = "from_bing_search"
  /\ img_calls' = Append(img_calls, "from_bing_search")
  /\ \/ /\ img_raised' = "RequestException"
        /\ pc' = "image_raised"
        /\ UNCHANGED <<img, img_left, img_caught>>
     \/ \E n \in 0..Min({MaxUrls, BING_MAX_URLS}) :
          /\ img_left' = n
          /\ img' = None
          /\ pc' = "bing_loop"
          /\ UNCHANGED <<img_caught, img_raised>>
  /\ UNCHANGED <<img_returns, img_dl, img_result>>
  /\ UNCHANGED <<inVars, runVars, lkVars, img_url, api_key, openai_ok>>

\* from_bing_search lines 86-93, 100-103: the search request; any exception
\* is caught and the step returns None.
Img_BingSearch ==
  /\ pc = "from_bing_search"
  /\ img_calls' = Append(img_calls, "from_bing_search")
  /\ \/ /\ img_caught' = img_caught \cup {"from_bing_search"}
        /\ StepReturns(None, "bing_returned")
        /\ UNCHANGED img_left
     \/ \E n \in 0..Min({MaxUrls, BING_MAX_URLS}) :
          /\ img_left' = n
          /\ img' = None
          /\ pc' = "bing_loop"
          /\ UNCHANGED img_caught
  /\ UNCHANGED <<img_returns, img_dl, img_result>>
  /\ ImgKeep

\* from_bing_search lines 95-99, 103: one candidate, or the end of the list.
Img_BingLoop ==
  /\ pc = "bing_loop"
  /\ IF img_left = 0
       THEN /\ StepReturns(None, "bing_returned")
            /\ UNCHANGED <<img_left, img_dl, img_caught>>
       ELSE \E d \in Downloads :
              /\ img_dl' = d
              /\ img_caught' = Caught("from_bing_search", d)
              /\ IF download_image(d) # None /\ download_image(d).w >= MIN_W
                   THEN /\ StepReturns(download_image(d), "bing_returned")
                        /\ UNCHANGED img_left
                   ELSE /\ img_left' = img_left - 1
                        /\ img' = download_image(d)
                        /\ pc' = "bing_loop"
  /\ UNCHANGED <<img_calls, img_returns, img_result>>
  /\ ImgKeep

Img_AfterBing == Img_StepDone("bing_returned", "from_duckduckgo_search")

\* from_duckduckgo_search lines 110-118, 136-139: the token request.
Img_DdgToken ==
  /\ pc = "from_duckduckgo_search"
  /\ img_calls' = Append(img_calls, "from_duckduckgo_search")
  /\ \E r \in {"exception", "no_vqd", "vqd"} :
       CASE r = "exception" ->
              /\ img_caught' = img_caught \cup {"from_duckduckgo_search"}
              /\ StepReturns(None, "ddg_returned")
         [] r = "no_vqd" ->
              /\ StepReturns(None, "ddg_returned")
              /\ UNCHANGED img_caught
         [] r = "vqd" ->
              /\ img' = None
              /\ pc' = "ddg_query"
              /\ UNCHANGED img_caught
  /\ UNCHANGED <<img_returns, img_left, img_dl, img_result>>
  /\ ImgKeep

\* from_duckduckgo_search lines 121-129, 136-139: the result request.
Img_DdgQuery ==
  /\ pc = "ddg_query"
  /\ \/ /\ img_caught' = img_caught \cup {"from_duckduckgo_search"}
        /\ StepReturns(None, "ddg_returned")
        /\ UNCHANGED img_left
     \/ \E n \in 0..Min({MaxUrls, DDG_MAX_RESULTS}) :
          /\ img_left' = n
          /\ img' = None
          /\ pc' = "ddg_loop"
          /\ UNCHANGED img_caught
  /\ UNCHANGED <<img_calls, img_returns, img_dl, img_result>>
  /\ ImgKeep

\* from_duckduckgo_search lines 129-139: one result, or the end of the list.
\* A result that is no mapping, or whose image is no string, raises inside
\* the try block.
Img_DdgLoop ==
  /\ pc = "ddg_loop"
  /\ IF img_left = 0
       THEN /\ StepReturns(None, "ddg_returned")
            /\ UNCHANGED <<img_left, img_dl, img_caught>>
       ELSE \/ /\ img_caught' = img_caught \cup {"from_duckduckgo_search"}
               /\ StepReturns(None, "ddg_returned")
               /\ UNCHANGED <<img_left, img_dl>>
            \/ /\ img_left' = img_left - 1
               /\ pc' = "ddg_loop"
               /\ UNCHANGED <<img, img_dl, img_caught>>
            \/ \E d \in Downloads :
                 /\ img_dl' = d
                 /\ img_caught' = Caught("from_duckduckgo_search", d)
                 /\ IF download_image(d) # None
                       /\ download_image(d).w >= MIN_W
                      THEN /\ StepReturns(download_image(d), "ddg_returned")
                           /\ UNCHANGED img_left
                      ELSE /\ img_left' = img_left - 1
                           /\ img' = download_image(d)
                           /\ pc' = "ddg_loop"
  /\ UNCHANGED <<img_calls, img_returns, img_result>>
  /\ ImgKeep

Img_AfterDdg == Img_StepDone("ddg_returned", "from_openai_dalle")

\* from_openai_dalle lines 146-176: nothing without a key; ImportError and
\* any other exception are caught.
Img_Dalle ==
  /\ pc = "from_openai_dalle"
  /\ img_calls' = Append(img_calls, "from_openai_dalle")
  /\ IF ~api_key
       THEN /\ StepReturns(None, "dalle_returned")
            /\ UNCHANGED <<img_dl, img_caught>>
       ELSE IF ~openai_ok
         THEN /\ img_caught' = img_caught \cup {"from_openai_dalle"}
              /\ StepReturns(None, "dalle_returned")
              /\ UNCHANGED img_dl
         ELSE \/ /\ img_caught' = img_caught \cup {"from_openai_dalle"}
                 /\ StepReturns(None, "dalle_returned")
                 /\ UNCHANGED img_dl
              \/ \E d \in Downloads :
                   /\ img_dl' = d
                   /\ img_caught' = Caught("from_openai_dalle", d)
                   /\ StepReturns(download_image(d), "dalle_returned")
  /\ UNCHANGED <<img_returns, img_left, img_result>>
  /\ ImgKeep

\* find_car_image lines 210-214: the last step's picture, or None.
Img_AfterDalle ==
  /\ pc = "dalle_returned"
  /\ img_returns' = Append(img_returns, img)
  /\ img_result' = img
  /\ pc' = "image_done"
  /\ UNCHANGED <<img_calls, img_left, img_dl, img, img_caught>>
  /\ ImgKeep

(***************************************************************************)
(* SpecImage: one call of find_car_image                                   *)
(***************************************************************************)

ImageInit ==
  /\ pc = "find_car_image"
  /\ img_url \in {None, Photo_1}
  /\ api_key \in BOOLEAN
  /\ openai_ok \in BOOLEAN
  /\ ImageFresh
  /\ brand_in = <<>>
  /\ model_in = NoneStr
  /\ playwright = FALSE
  /\ RunFresh
  /\ LookupIdle

ImageNext ==
  \/ Img_Catalog
  \/ Img_AfterCatalog
  \/ Img_BingSearch
  \/ Img_BingLoop
  \/ Img_AfterBing
  \/ Img_DdgToken
  \/ Img_DdgQuery
  \/ Img_DdgLoop
  \/ Img_AfterDdg
  \/ Img_Dalle
  \/ Img_AfterDalle

SpecImage == ImageInit /\ [][ImageNext]_vars

(***************************************************************************)
(* SpecFind: the selection of find_model_by_name over a candidate list     *)
(***************************************************************************)

\* Longest candidate list drawn.
MaxCands == 2

S_BMW == <<"B","M","W">>
S_m_3 == <<"m"," ","3">>
S_M3_padded == <<" ","M","3"," ">>
S_M3Competition == <<"M","3"," ","C","o","m","p","e","t","i","t","i","o","n">>
S_Z4 == <<"Z","4">>
N_X5 == <<"B","M","W"," ","X","5">>
Car_M3_short == CarUrl("2021/7/bmw_m3.html")
Car_X5 == CarUrl("2019/5/bmw_x5.html")

\* Candidates as get_models_from_make_page returns them: distinct URLs and
\* distinct names.
CandidatePool ==
  {[url |-> Car_320i, name |-> N_320i],
   [url |-> Car_M3, name |-> N_M3Competition],
   [url |-> Car_M3_short, name |-> S_M3],
   [url |-> Car_X5, name |-> N_X5]}

RECURSIVE ListsOver(_, _)
\* The lists of at most n distinct elements of S.
ListsOver(S, n) ==
  IF n = 0 THEN {<<>>}
  ELSE {<<>>} \cup
       UNION {{<<x>> \o t : t \in ListsOver(S \ {x}, n - 1)} : x \in S}

S_RS == <<"R","S">>

FindQueries ==
  {S_M3, S_M3_padded, S_m_3, S_M3Competition, S_Z4, WsRun(1), S_RS}

FindMakes == {S_BMW, S_Audi}

\* find_model_by_name after its listings have returned.
FindInit ==
  /\ pc = "find_model_select"
  /\ brand_in \in FindMakes
  /\ model_in \in FindQueries
  /\ playwright = FALSE
  /\ brand = brand_in
  /\ models \in ListsOver(CandidatePool, MaxCands)
  /\ model_link = None
  /\ car_specs = None
  /\ html = None
  /\ url = None
  /\ stack = <<>>
  /\ fcs_model = NoneStr
  /\ attempt = 0
  /\ browser = 0
  /\ io = <<>>
  /\ rendered = <<>>
  /\ raised = "no"
  /\ LookupIdle
  /\ ImageIdle

FindNext == FindModel_Select

SpecFind == FindInit /\ [][FindNext]_vars

(***************************************************************************)
(* Claims                                                                  *)
(***************************************************************************)
\* q is key with some letters upper-cased and whitespace added around it.
CaseWsVariant(q, key) ==
  \E l \in 0..Len(q) :
    LET r == Len(q) - Len(key) - l
    IN /\ r >= 0
       /\ \A i \in 1..l : q[i] \in Whitespace
       /\ \A i \in 1..r : q[l + Len(key) + i] \in Whitespace
       /\ \A i \in 1..Len(key) :
            q[l + i] = key[i] \/ q[l + i] = UpperChar(key[i])

\* C8: for every key (mk, md) of the knowledge base, the lookup of a make and
\* model that differ from mk and md only in letter case and surrounding
\* whitespace returns exactly the mapping stored under (mk, md).
C8_CaseWsInsensitiveExact ==
  pc = "lookup_done" =>
    \A k \in DbIndex :
      (/\ CaseWsVariant(lk_make, DEMO_SPECS_DB[k].mk)
       /\ CaseWsVariant(lk_model, DEMO_SPECS_DB[k].md))
        => lk_result = DEMO_SPECS_DB[k].specs

HasUpper(s) == \E i \in 1..Len(s) : \E j \in Letters : s[i] = UpperCase[j]

\* A lookup has been answered for a key written with upper-case letters and
\* whitespace on both sides of make and model, the key being one whose
\* model is also a substring match of another entry of the same make.
C8_Witness ==
  /\ pc = "lookup_done"
  /\ \E k \in DbIndex :
       /\ CaseWsVariant(lk_make, DEMO_SPECS_DB[k].mk)
       /\ CaseWsVariant(lk_model, DEMO_SPECS_DB[k].md)
       /\ HasUpper(lk_make) /\ HasUpper(lk_model)
       /\ Len(lk_make) = Len(DEMO_SPECS_DB[k].mk) + 2
       /\ Len(lk_model) = Len(DEMO_SPECS_DB[k].md) + 2
       /\ lk_make[1] \in Whitespace /\ lk_model[1] \in Whitespace
       /\ DbModelPartial(DEMO_SPECS_DB[k].mk, DEMO_SPECS_DB[k].md) # {k}
       /\ Min(DbModelPartial(DEMO_SPECS_DB[k].mk, DEMO_SPECS_DB[k].md)) # k
       /\ lk_result = DEMO_SPECS_DB[k].specs

\* The normalized form of a query string: trimmed and lower-cased.
Normalized(s) == lower(strip(s))

\* Entries matching at each rule of the lookup, for normalized mk and md.
Rule1(mk, md) ==
  {k \in DbIndex : DEMO_SPECS_DB[k].mk = mk /\ DEMO_SPECS_DB[k].md = md}
Rule2(mk, md) ==
  {k \in DbIndex :
     /\ DEMO_SPECS_DB[k].mk = mk
     /\ IsSubstr(DEMO_SPECS_DB[k].md, md) \/ IsSubstr(md, DEMO_SPECS_DB[k].md)}
Rule3(mk) ==
  {k \in DbIndex :
     IsSubstr(DEMO_SPECS_DB[k].mk, mk) \/ IsSubstr(mk, DEMO_SPECS_DB[k].mk)}

StoredUnder(K) == {DEMO_SPECS_DB[k].specs : k \in K}

\* C9: the lookup is total and applies its rules in strict priority: the
\* exact normalized key; else an entry of the same make whose model is a
\* substring of the query model or contains it; else an entry whose make is
\* a substring of the query make or contains it; else the generic default.
\* A lower rule is used only when no higher rule matches, and the result is
\* never absent or empty.
C9_LookupPriority ==
  pc = "lookup_done" =>
    LET mk == Normalized(lk_make)
        md == Normalized(lk_model)
    IN /\ lk_result # None
       /\ DOMAIN lk_result # {}
       /\ Rule1(mk, md) # {} => lk_result \in StoredUnder(Rule1(mk, md))
       /\ (Rule1(mk, md) = {} /\ Rule2(mk, md) # {})
            => lk_result \in StoredUnder(Rule2(mk, md))
       /\ (Rule1(mk, md) = {} /\ Rule2(mk, md) = {} /\ Rule3(mk) # {})
            => lk_result \in StoredUnder(Rule3(mk))
       /\ (Rule1(mk, md) = {} /\ Rule2(mk, md) = {} /\ Rule3(mk) = {})
            => lk_result = DEFAULT_DEMO

\* A lookup answered by the second rule where the third rule alone would
\* have answered with a different entry of the same make.
C9_Witness ==
  /\ pc = "lookup_done"
  /\ Rule1(Normalized(lk_make), Normalized(lk_model)) = {}
  /\ Rule2(Normalized(lk_make), Normalized(lk_model)) # {}
  /\ lk_result # DEMO_SPECS_DB[Min(Rule3(Normalized(lk_make)))].specs
  /\ lk_result \in StoredUnder(Rule2(Normalized(lk_make), Normalized(lk_model)))

\* s is empty or consists of whitespace only.
IsBlank(s) == \A i \in 1..Len(s) : s[i] \in Whitespace

\* C1: for every make that is empty or whitespace-only, run fails with a
\* validation error before any network fetch, browser fetch or rendering
\* step is attempted, whatever the model is.
C1_BlankMakeFailsBeforeIO ==
  (IsBlank(brand_in) /\ pc # "run") =>
    /\ pc = "raised"
    /\ raised = "ValueError"
    /\ io = <<>>
    /\ browser = 0
    /\ rendered = <<>>

\* run has rejected a whitespace-only make given together with a model.
C1_Witness ==
  /\ pc = "raised"
  /\ raised = "ValueError"
  /\ Len(brand_in) > 0
  /\ Truthy(model_in)

\* C2: for every make that is not blank, with or without a model, and for
\* every outcome of the fetches, run does not abort and eventually hands
\* exactly one specification to the renderer.
C2_AlwaysRendersOnce ==
  /\ (pc = "run" /\ ~IsBlank(brand_in))
       ~> (pc = "done" /\ Len(rendered) = 1 /\ raised = "no")
  /\ [](Len(rendered) <= 1)
  /\ [](~IsBlank(brand_in) => raised = "no")

\* run has rendered after every network attempt for the vehicle page and
\* the browser fallback that follows them left no HTML.
C2_Witness ==
  /\ pc = "done"
  /\ Len(rendered) = 1
  /\ attempt > REQUEST_RETRIES
  /\ ~HasHtml(html)
  /\ playwright

\* C3: the attributes mapping of every specification handed to the renderer
\* is non-empty, on the model-requested and on the make-only path.
C3_RenderedAttributesNonEmpty ==
  \A i \in 1..Len(rendered) : DOMAIN rendered[i].specs # {}

\* run, called without a model, has rendered after the first listed model's
\* page was fetched and yielded no attributes.
C3_Witness ==
  /\ pc = "done"
  /\ ~Truthy(model_in)
  /\ html = PageCarNoSpecs
  /\ Len(rendered) = 1

\* No page fetch of the run has returned HTML.
AllFetchesAbsent ==
  \A i \in 1..Len(io) :
    /\ ~(io[i].op = "content" /\ io[i].note = "ok")
    /\ ~(io[i].op = "get" /\ io[i].note = "200")

\* C4: for a non-blank make and a requested model, when every network and
\* browser fetch returns absent, the rendered specification has the
\* requested (trimmed) make and the requested model, attributes equal to the
\* knowledge base lookup for them (the stored entry when the key exists) and
\* no photo URL.
C4_AllAbsentGivesKnowledgeBase ==
  (pc = "done" /\ Truthy(model_in) /\ AllFetchesAbsent) =>
    /\ Len(rendered) = 1
    /\ rendered[1].make = strip(brand_in)
    /\ rendered[1].model = model_in
    /\ rendered[1].specs = get_demo_specs(brand_in, model_in)
    /\ \A k \in DbIndex :
         (/\ CaseWsVariant(brand_in, DEMO_SPECS_DB[k].mk)
          /\ CaseWsVariant(model_in, DEMO_SPECS_DB[k].md))
           => rendered[1].specs = DEMO_SPECS_DB[k].specs
    /\ rendered[1].image_url = None

\* Audi TT RS, every fetch failing: listing, search, then the known vehicle
\* URL by browser, by all network attempts and by browser again.
C4_Witness ==
  /\ pc = "done"
  /\ AllFetchesAbsent
  /\ playwright
  /\ brand_in = S_Audi
  /\ model_in = S_TTRS
  /\ attempt > REQUEST_RETRIES
  /\ Len(rendered) = 1
  /\ rendered[1].specs = DEMO_SPECS_DB[1].specs

\* a is a prefix of b.
IsPrefix(a, b) == Len(a) <= Len(b) /\ SubSeq(b, 1, Len(a)) = a

Undersized(d) ==
  /\ d # None
  /\ d # DownloadFailed
  /\ (d.w < MIN_W \/ d.h < MIN_H)

\* C6: every picture find_car_image returns is at least 300 wide and 180
\* high; a download below either minimum is discarded (the step holds no
\* picture after it) and the search goes on: it ends without a picture only
\* after the last step.
C6_MinimumSize ==
  /\ img_result # None => (img_result.w >= MIN_W /\ img_result.h >= MIN_H)
  /\ img # None => (img.w >= MIN_W /\ img.h >= MIN_H)
  /\ Undersized(img_dl) =>
       /\ img = None
       /\ img_result = None
       /\ pc = "image_done" => img_calls = IMAGE_STEPS

C6_Witness ==
  /\ pc = "bing_loop"
  /\ img_dl = Image(MIN_W, MIN_H - 1)
  /\ img = None
  /\ img_left = 1

\* C7: no exception leaves find_car_image; a step that returned nothing
\* (an exception it caught included) is followed by the next step, and when
\* all four steps returned nothing the result is None.
C7_ExceptionsSwallowed ==
  /\ img_raised = "no"
  /\ pc # "image_raised"
  /\ \A n \in 1..Len(img_returns) :
       (n < Len(IMAGE_STEPS) /\ img_returns[n] = None) =>
         (Len(img_calls) > n \/ pc = IMAGE_STEPS[n + 1])
  /\ pc = "image_done" =>
       /\ Len(img_returns) = Len(img_calls)
       /\ (\A n \in 1..Len(img_returns) : img_returns[n] = None) =>
            (img_result = None /\ img_calls = IMAGE_STEPS)

C7_Witness ==
  /\ pc = "image_done"
  /\ img_caught = {IMAGE_STEPS[n] : n \in 1..Len(IMAGE_STEPS)}
  /\ img_calls = IMAGE_STEPS
  /\ img_result = None
  /\ img_raised = "no"

\* The query and a candidate name as the match compares them: lower case,
\* spaces removed, the query trimmed first.
QueryKey(q) == remove_spaces(lower(strip(q)))
NameKey(c) == remove_spaces(lower(c.name))

\* The candidate's name contains the (non-blank) query.
NameContainsQuery(c, q) ==
  QueryKey(q) # <<>> /\ IsSubstr(QueryKey(q), NameKey(c))

\* The name contains the query, or the query contains the name.
MatchesEitherWay(c, q) ==
  IsSubstr(QueryKey(q), NameKey(c)) \/ IsSubstr(NameKey(c), QueryKey(q))

\* C10 as stated: with a non-empty candidate list find_model_by_name returns
\* a candidate that matches the query in either direction when one exists,
\* and the first candidate otherwise.
C10_EitherDirection ==
  (pc = "run_found" /\ models # <<>>) =>
    IF \E i \in 1..Len(models) : MatchesEitherWay(models[i], model_in)
      THEN MatchesEitherWay(model_link, model_in)
      ELSE model_link = models[1]

\* C10: with a non-empty candidate list find_model_by_name returns the first
\* candidate whose name contains the non-blank query, case and spaces
\* ignored, when one exists, and the first candidate of the list otherwise;
\* a name that is only contained in the query is no match.
C10_NameContainsQuery ==
  (pc = "run_found" /\ models # <<>>) =>
    IF \E i \in 1..Len(models) : NameContainsQuery(models[i], model_in)
      THEN model_link =
             models[Min({i \in 1..Len(models) :
                           NameContainsQuery(models[i], model_in)})]
      ELSE model_link = models[1]

C10_Witness ==
  /\ pc = "run_found"
  /\ model_in = S_M3
  /\ Len(models) = 2
  /\ models[1].name = N_320i
  /\ model_link = models[2]
  /\ model_link.name = N_M3Competition

\* The I/O events addressed to a URL of the given kind.
EventsOfKind(kind) == {i \in 1..Len(io) : io[i].url.kind = kind}

\* C11: find_model_by_name fetches the listing page of the make first, and
\* fetches the search page exactly when the listing gave no candidate and a
\* model query was given; after a listing with a candidate no search
\* follows.
C11_ListingThenSearch ==
  /\ [][/\ pc = "find_model_by_name" => pc' = "fetch_models_for_make"
        /\ pc' = "fetch_car_links_via_search" =>
             (pc = "find_model_listed" /\ models = <<>> /\ Truthy(model_in))
        /\ (pc = "find_model_listed" /\ models = <<>> /\ Truthy(model_in)) =>
             pc' = "fetch_car_links_via_search"
        /\ (pc = "find_model_listed" /\ models # <<>>) =>
             (pc' = "find_model_select" /\ io' = io)]_vars
  /\ [](\A i \in EventsOfKind("search") :
          \E j \in EventsOfKind("make") : j < i)
  /\ [](pc = "find_model_listed" => EventsOfKind("search") = {})

C11_Witness ==
  /\ pc = "find_model_select"
  /\ EventsOfKind("make") # {}
  /\ EventsOfKind("search") # {}
  /\ models # <<>>

\* The entries of the known-URL table for a make and a query: the one stored
\* under exactly that key, and those of the make whose stored model contains
\* the query or is contained in it.
TableExact(mk, q) ==
  {i \in KnownIndex : KNOWN_CAR_URLS[i].mk = mk /\ KNOWN_CAR_URLS[i].md = q}
TableSubstring(mk, q) ==
  {i \in KnownIndex :
     /\ KNOWN_CAR_URLS[i].mk = mk
     /\ (IsSubstr(KNOWN_CAR_URLS[i].md, q) \/ IsSubstr(q, KNOWN_CAR_URLS[i].md))}

\* C12: find_model_by_name returns one of the candidates whenever there is
\* one; with no candidate it returns the known URL stored under the exact
\* (make, model) key, else that of the first entry of the make whose stored
\* model is a substring match of the query (either contains the other), else
\* None.  The synthetic candidate is named after the query.
C12_KnownUrlTable ==
  pc = "run_found" =>
    /\ models # <<>> => \E i \in 1..Len(models) : model_link = models[i]
    /\ models = <<>> =>
         IF TableExact(normalize_make(brand), lower(strip(model_in))) # {}
           THEN \E i \in TableExact(normalize_make(brand),
                                    lower(strip(model_in))) :
                  model_link = [url |-> KNOWN_CAR_URLS[i].url,
                                name |-> model_in]
         ELSE IF TableSubstring(normalize_make(brand),
                                lower(strip(model_in))) # {}
           THEN model_link =
                  [url |-> KNOWN_CAR_URLS[
                             Min(TableSubstring(normalize_make(brand),
                                                lower(strip(model_in))))].url,
                   name |-> model_in]
         ELSE model_link = None

\* Audi "RS": no candidate, no exact key, the query is inside "tt rs".
C12_Witness ==
  /\ pc = "run_found"
  /\ models = <<>>
  /\ brand = S_Audi
  /\ model_in = S_RS
  /\ model_link # None
  /\ model_link.url = KNOWN_CAR_URLS[1].url
  /\ model_link.name = S_RS

\* The network GETs in the I/O log, and the browser launches after event i.
Gets == {i \in 1..Len(io) : io[i].op = "get"}
LaunchesAfter(i) == {j \in (i + 1)..Len(io) : io[j].op = "launch"}
Max(S) == CHOOSE x \in S : \A y \in S : y <= x

\* _get_url has returned to fetch_car_specs.
GetUrlReturned ==
  /\ Gets # {}
  /\ pc \in {"fetch_specs_parse", "run_backfill", "run_fallback",
             "make_only_fallback", "render", "done"}

\* The last GET was refused with status 403, or it was the last allowed
\* attempt and failed.
NetworkGaveUp ==
  \/ io[Max(Gets)].note = "403"
  \/ /\ Cardinality(Gets) = REQUEST_RETRIES
     /\ io[Max(Gets)].note = "RequestException"

\* C13: _get_url makes at most REQUEST_RETRIES GETs, all for one URL, with a
\* REQUEST_DELAY_SEC sleep right before each one after the first; a GET
\* answered 200 or 403 is the last one; after a 200 the body is returned and
\* nothing else is done; the browser is started after the GETs only when
\* the last one was refused or the attempts are used up, and then once.
C13_BoundedRetries ==
  /\ Cardinality(Gets) <= REQUEST_RETRIES
  /\ \A i \in Gets :
       /\ io[i].url = io[Min(Gets)].url
       /\ i # Min(Gets) =>
            (io[i - 1] = Ev("sleep", io[i].url, "REQUEST_DELAY_SEC")
               /\ i - 2 \in Gets)
       /\ i # Max(Gets) => io[i].note = "RequestException"
       /\ io[i].note = "200" => (i = Len(io) /\ browser = 0)
  /\ Gets # {} =>
       /\ Cardinality(LaunchesAfter(Max(Gets))) <= 1
       /\ LaunchesAfter(Max(Gets)) # {} => NetworkGaveUp
  /\ GetUrlReturned =>
       /\ io[Max(Gets)].note = "200" \/ NetworkGaveUp
       /\ io[Max(Gets)].note = "200" => html # None
       /\ NetworkGaveUp =>
            Cardinality(LaunchesAfter(Max(Gets))) =
              (IF playwright THEN 1 ELSE 0)

\* Three failed GETs, then the browser returns the page.
C13_Witness ==
  /\ pc = "fetch_specs_parse"
  /\ Cardinality(Gets) = REQUEST_RETRIES
  /\ \A i \in Gets : io[i].note = "RequestException"
  /\ Cardinality(LaunchesAfter(Max(Gets))) = 1
  /\ io[Len(io) - 1] = Ev("content", url, "ok")
  /\ HasHtml(html)

\* The documents a fetch can return.
Documents == {EmptyHtml, PageBlank, PageLinks, PageCar, PageCarNoSpecs}

\* An I/O call that failed: a GET that raised or was refused, a launch or
\* navigation cut short (the next event closes the browser or there is
\* none), a page whose content could not be read.
FailedIO ==
  {i \in 1..Len(io) :
     \/ (io[i].op = "get" /\ io[i].note # "200")
     \/ (io[i].op = "content" /\ io[i].note = "error")
     \/ (io[i].op = "goto" /\ i < Len(io) /\ io[i + 1].op = "close")}

\* C14: no I/O failure raises.  The only exception of a run is the
\* ValueError of a blank make, raised before any I/O; what a fetch leaves is
\* a document or None; a run that met failed I/O still ends by rendering.
C14_FetchNeverRaises ==
  /\ raised \in {"no", "ValueError"}
  /\ raised = "ValueError" => io = <<>>
  /\ pc = "raised" => raised = "ValueError"
  /\ html = None \/ html \in Documents
  /\ (pc = "done" /\ FailedIO # {}) => (Len(rendered) = 1 /\ raised = "no")

\* A run that met a failed GET, a refused GET, a failed navigation and an
\* unreadable page, and rendered.
C14_Witness ==
  /\ pc = "done"
  /\ raised = "no"
  /\ \E i \in FailedIO : io[i].op = "get" /\ io[i].note = "RequestException"
  /\ \E i \in FailedIO : io[i].op = "get" /\ io[i].note = "403"
  /\ \E i \in FailedIO : io[i].op = "goto"
  /\ \E i \in FailedIO : io[i].op = "content"

\* The starts of the two fetch paths in the I/O log: a browser launch, a
\* network GET.
Launches == {i \in 1..Len(io) : io[i].op = "launch"}

\* C15 as stated: in every page fetch the browser is attempted only after
\* the network path has failed for that page, and no path is attempted once
\* a path has returned HTML.
C15_NetworkThenBrowser ==
  /\ \A i \in Launches :
       \E j \in Gets :
         j < i /\ io[j].url = io[i].url /\ io[j].note # "200"
  /\ \A i \in Gets : io[i].note = "200" => i = Len(io)
  /\ pc = "get_url" => ~HasHtml(html)

\* C15: listing and search pages are fetched by the browser alone, once;
\* a vehicle page is fetched by the browser first, by the network only when
\* the browser returned no HTML, and by the browser again only when the
\* network gave up; no path is attempted once a path has returned HTML.
C15_BrowserNetworkBrowser ==
  /\ [](\A i \in Gets : io[i].url.kind = "car")
  /\ [](\A i \in Launches :
          io[i].url.kind # "car" =>
            \A j \in Launches : io[j].url = io[i].url => j = i)
  /\ [](\A i \in Gets :
          /\ playwright =>
               \E j \in Launches : j < i /\ io[j].url = io[i].url
          /\ Cardinality({j \in Launches : j < i}
                           \cap {j \in Launches : io[j].url = io[i].url}) <= 1)
  /\ [](Gets # {} =>
          (LaunchesAfter(Max(Gets)) # {} => NetworkGaveUp))
  /\ [][/\ (pc' = "get_url" /\ pc # "get_url") =>
             (pc = "fetch_specs_browsed" /\ ~HasHtml(html))
        /\ (HasHtml(html)
              /\ pc \in {"fetch_specs_browsed", "fetch_specs_parse"})
             => io' = io]_vars

\* A vehicle page the browser failed to return and the network then did.
C15_Witness ==
  /\ pc = "fetch_specs_parse"
  /\ HasHtml(html)
  /\ Gets # {}
  /\ io[Len(io)] = Ev("get", url, "200")
  /\ \E j \in Launches : io[j].url = url

\* C16: fetch_car_specs calls the browser first and enters the network path
\* exactly when the browser returned no HTML; it returns None exactly when
\* it ends without HTML, and otherwise a specification for the given make
\* and model carrying what the page yields, an empty mapping included.
C16_FetchSpecsBrowserFirst ==
  [][/\ pc = "fetch_car_specs" =>
          (pc' = "browser" /\ Head(stack') = "fetch_specs_browsed"
             /\ io' = io)
     /\ pc = "fetch_specs_browsed" =>
          ((pc' = "get_url") <=> ~HasHtml(html))
     /\ (pc' = "get_url" /\ pc # "get_url") => pc = "fetch_specs_browsed"
     /\ pc = "fetch_specs_parse" =>
          /\ (car_specs' = None) <=> ~HasHtml(html)
          /\ HasHtml(html) =>
               /\ car_specs'.make = brand
               /\ car_specs'.model = fcs_model
               /\ car_specs'.specs = html.attrs
               /\ car_specs'.image_url = html.photo]_vars

\* fetch_car_specs has returned to run a specification without attributes.
C16_Witness ==
  /\ pc = "run_backfill"
  /\ HasHtml(html)
  /\ car_specs # None
  /\ car_specs.specs = EmptyDict

\* The requests for a listing, search or vehicle page in the I/O log: a
\* browser navigation to the page, a network GET.
PageRequests ==
  {i \in 1..Len(io) :
     \/ io[i].op = "get"
     \/ (io[i].op = "goto" /\ io[i].url.kind # "home")}

\* C17: between every two consecutive page requests of a run the program
\* sleeps REQUEST_DELAY_SEC.
C17_DelayBetweenFetches ==
  \A i \in PageRequests : \A j \in PageRequests :
    (i < j /\ \A m \in PageRequests : ~(i < m /\ m < j)) =>
      \E k \in (i + 1)..(j - 1) :
        io[k].op = "sleep" /\ io[k].note = "REQUEST_DELAY_SEC"

\* The run ended after fetch_car_specs read a vehicle page: html is that page.
VehiclePageRead ==
  /\ pc = "done"
  /\ url # None
  /\ url.kind = "car"
  /\ HasHtml(html)

\* C18: with a model requested, when the vehicle page was fetched and gave
\* no attribute, the backfill step sets the attributes to the knowledge base
\* lookup for the make and the requested model, which is not empty, and the
\* rendered specification carries them.
C18_BackfillEqualsLookup ==
  /\ [][(/\ pc = "run_backfill"
         /\ car_specs # None
         /\ car_specs.specs = EmptyDict) =>
          /\ car_specs' # None
          /\ car_specs'.specs = get_demo_specs(brand_in, model_in)
          /\ DOMAIN car_specs'.specs # {}]_vars
  /\ []((VehiclePageRead /\ Truthy(model_in) /\ html.attrs = EmptyDict) =>
          /\ Len(rendered) = 1
          /\ rendered[1].specs = get_demo_specs(brand_in, model_in)
          /\ DOMAIN rendered[1].specs # {})

\* Audi TT RS, the page read without attributes but with a photo: the
\* rendered attributes are the stored entry, the photo is kept.
C18_Witness ==
  /\ VehiclePageRead
  /\ brand_in = S_Audi
  /\ model_in = S_TTRS
  /\ html = PageCarNoSpecs
  /\ rendered[1].specs = DEMO_SPECS_DB[1].specs
  /\ rendered[1].image_url = Photo_1

\* C19: a specification is changed after its construction only when its
\* attributes are empty, and then gets non-empty ones, so at most once; the
\* backfill step of the model-requested path changes no field but the
\* attributes; a page that gave attributes is rendered with exactly its
\* attributes, display name and photo URL, under the make and model it was
\* fetched for.
C19_AttributesReplacedOnce ==
  /\ [][(car_specs # None /\ car_specs' # car_specs) =>
          /\ car_specs.specs = EmptyDict
          /\ car_specs' # None
          /\ car_specs'.specs # EmptyDict]_vars
  /\ [][(pc = "run_backfill" /\ car_specs # None) =>
          car_specs' = [car_specs EXCEPT !.specs = car_specs'.specs]]_vars
  /\ [][(rendered # <<>>) => (rendered' = rendered /\ car_specs' = car_specs)]_vars
  /\ []((VehiclePageRead /\ html.attrs # EmptyDict) =>
          /\ Len(rendered) = 1
          /\ rendered[1].specs = html.attrs
          /\ rendered[1].image_url = html.photo
          /\ rendered[1].full_name = FullName(html, strip(brand_in), fcs_model)
          /\ rendered[1].make = strip(brand_in)
          /\ rendered[1].model = fcs_model)

\* The page of the requested model gave attributes, a title and a photo.
C19_Witness ==
  /\ VehiclePageRead
  /\ Truthy(model_in)
  /\ html = PageCar
  /\ rendered[1].specs = PageCar.attrs
  /\ rendered[1].image_url = Photo_1
  /\ rendered[1].model = model_in

\* A run without a requested model has ended.
MakeOnlyDone == pc = "done" /\ ~Truthy(model_in)

\* The fixed default model name for a make.
DefaultModelName(make) ==
  IF lower(make) = <<"a","u","d","i">> THEN S_TTRS ELSE S_Sport

\* C20 as stated: with no model requested, a first listed model whose page
\* was fetched without attributes keeps its name and photo URL and gets the
\* knowledge base attributes for the make and that model; the default model
\* name appears only when no listed model could be fetched.
C20_MakeOnlyBackfills ==
  MakeOnlyDone =>
    /\ (VehiclePageRead /\ html.attrs = EmptyDict) =>
         /\ rendered[1].model = models[1].name
         /\ rendered[1].image_url = html.photo
         /\ rendered[1].specs = get_demo_specs(brand_in, models[1].name)
    /\ (rendered[1].model = DefaultModelName(strip(brand_in))
          /\ models # <<>>) => ~HasHtml(html)

\* C20: with no model requested, the first listed model is rendered, with
\* its extracted attributes, display name and photo URL, only when its page
\* was fetched and gave attributes; in every other case (no listing, page
\* not fetched, page without attributes) the specification is a new one
\* under the fixed default model name, with the knowledge base attributes
\* for the make and that name and no photo URL.
C20_MakeOnlyFallsBack ==
  MakeOnlyDone =>
    /\ Len(rendered) = 1
    /\ rendered[1].make = strip(brand_in)
    /\ IF models # <<>> /\ VehiclePageRead /\ html.attrs # EmptyDict
         THEN /\ rendered[1].model = models[1].name
              /\ url = models[1].url
              /\ rendered[1].specs = html.attrs
              /\ rendered[1].image_url = html.photo
         ELSE /\ rendered[1].model = DefaultModelName(strip(brand_in))
              /\ rendered[1].full_name =
                   strip(brand_in) \o <<" ">> \o rendered[1].model
              /\ rendered[1].specs =
                   get_demo_specs(brand_in, DefaultModelName(strip(brand_in)))
              /\ rendered[1].image_url = None

\* The first listed model's page was fetched with a photo and no attribute:
\* the rendered specification is the default one, without the photo.
C20_Witness ==
  /\ MakeOnlyDone
  /\ models # <<>>
  /\ VehiclePageRead
  /\ html = PageCarNoSpecs
  /\ rendered[1].model = S_Sport
  /\ rendered[1].image_url = None

(***************************************************************************)
(* SpecParse: the specification rows of parse_specs_from_car_page          *)
(***************************************************************************)
(* A vehicle page as the row scan reads it: its tables in the order of     *)
(* find_all("table"), each with the texts of the cells of its rows; its    *)
(* definition lists with the texts of their dt and dd elements; and its    *)
(* label containers, each with its text and the text of its next sibling   *)
(* (NoneStr when it has none).                                             *)
(***************************************************************************)
CSS_NOISE_PATTERNS ==
  {<<"m","a","r","g","i","n">>, <<"p","a","d","d","i","n","g">>,
   <<"d","i","s","p","l","a","y">>, <<"f","o","n","t","-">>,
   <<"c","o","l","o","r",":">>, <<"b","o","r","d","e","r">>,
   <<"p","o","s","i","t","i","o","n">>,
   <<"b","a","c","k","g","r","o","u","n","d">>,
   <<"t","e","x","t","-","a","l","i","g","n">>,
   <<"o","v","e","r","f","l","o","w">>,
   <<"l","i","n","e","-","h","e","i","g","h","t">>,
   <<"z","-","i","n","d","e","x">>, <<"o","p","a","c","i","t","y">>,
   <<"v","i","s","i","b","i","l","i","t","y">>, <<"c","u","r","s","o","r">>,
   <<"t","r","a","n","s","f","o","r","m">>,
   <<"t","r","a","n","s","i","t","i","o","n">>,
   <<"a","n","i","m","a","t","i","o","n">>, <<"f","l","e","x">>,
   <<"g","r","i","d">>, <<"o","u","t","l","i","n","e">>,
   <<"l","i","s","t","-","s","t","y","l","e">>,
   <<"v","e","r","t","i","c","a","l","-","a","l","i","g","n">>,
   <<"w","h","i","t","e","-","s","p","a","c","e">>, <<"w","o","r","d","-">>,
   <<"l","e","t","t","e","r","-","s","p","a","c","i","n","g">>,
   <<"t","e","x","t","-","d","e","c","o","r","a","t","i","o","n">>,
   <<"t","e","x","t","-","t","r","a","n","s","f","o","r","m">>,
   <<"b","o","x","-">>, <<"f","l","o","a","t">>, <<"c","l","e","a","r">>,
   <<"a","p","p","e","a","r","a","n","c","e">>, <<"{">>, <<"}">>, <<";">>,
   <<"!","i","m","p","o","r","t","a","n","t">>, <<":",":">>,
   <<"@","m","e","d","i","a">>, <<"@","f","o","n","t">>, <<"u","r","l","(">>,
   <<".","h","1">>, <<".","h","2">>, <<".","h","3">>, <<".","h","4">>,
   <<"r","e","m",";">>, <<"r","e","m","}">>, <<"e","m",";">>, <<"p","x",";">>,
   <<"p","x","}">>, <<"r","g","b","a">>, <<"r","g","b","(">>, <<"h","s","l">>,
   <<"v","a","r","(","-","-">>, <<"c","l","o","u","d","f","l","a","r","e">>,
   <<"j","a","v","a","s","c","r","i","p","t">>,
   <<"s","t","y","l","e","s","h","e","e","t">>,
   <<"r","e","c","a","p","t","c","h","a">>, <<"h","t","t","p",":","/","/">>,
   <<"h","t","t","p","s",":","/","/">>, <<".","c","s","s">>, <<".","j","s">>,
   <<".","p","h","p">>, <<"c","o","o","k","i","e">>,
   <<"c","a","p","t","c","h","a">>, <<"n","o","s","c","r","i","p","t">>,
   <<"d","o","c","t","y","p","e">>}

MAX_NOISE_LEN == 150
MAX_LABEL_LEN == 100

\* _is_noise
is_noise(text) ==
  With(strip(lower(text)), LAMBDA t :
    \/ t = <<>>
    \/ Len(t) > MAX_NOISE_LEN
    \/ \E p \in CSS_NOISE_PATTERNS : IsSubstr(p, t))

\* (s or "").strip().replace("\n", " ").strip()
CleanText(s) == strip(ReplaceChar(strip(s), "\n", " "))

\* Never overwrites a label (specs.setdefault): faulty variant of add.
add_first_wins(specs, k, v) ==
  With(CleanText(k), LAMBDA ck :
    With(CleanText(v), LAMBDA cv :
      IF ck # <<>> /\ cv # <<>> /\ ~is_noise(ck) /\ ~is_noise(cv)
           /\ ck \notin DOMAIN specs
        THEN [x \in DOMAIN specs \cup {ck} |->
                IF x = ck THEN cv ELSE specs[x]]
        ELSE specs))

\* add(k, v) of parse_specs_from_car_page, on the mapping specs
add(specs, k, v) ==
  With(CleanText(k), LAMBDA ck :
    With(CleanText(v), LAMBDA cv :
      IF ck # <<>> /\ cv # <<>> /\ ~is_noise(ck) /\ ~is_noise(cv)
        THEN [x \in DOMAIN specs \cup {ck} |->
                IF x = ck THEN cv ELSE specs[x]]
        ELSE specs))

\* t.partition(":")[2]
AfterFirst(s, sep) ==
  IF \E i \in 1..Len(s) : s[i] = sep
    THEN SubSeq(s, Min({i \in 1..Len(s) : s[i] = sep}) + 1, Len(s))
    ELSE <<>>

\* The body of the row loop: cells are the texts of the row's th/td.
AddRow(specs, cells) ==
  IF Len(cells) >= 2 THEN add(specs, cells[1], cells[2])
  ELSE IF Len(cells) = 1
    THEN With(strip(cells[1]), LAMBDA t :
           IF \E i \in 1..Len(t) : t[i] = ":"
             THEN add(specs, BeforeFirst(t, ":"), AfterFirst(t, ":"))
             ELSE specs)
  ELSE specs

RECURSIVE ScanRows(_, _)
ScanRows(specs, rows) ==
  IF rows = <<>> THEN specs
  ELSE ScanRows(AddRow(specs, Head(rows)), Tail(rows))

RECURSIVE ScanTables(_, _)
\* for table in soup.find_all("table"): for row in table.find_all("tr")
ScanTables(specs, tables) ==
  IF tables = <<>> THEN specs
  ELSE ScanTables(ScanRows(specs, Head(tables)), Tail(tables))

RECURSIVE ZipAdd(_, _, _)
\* for dt, dd in zip(dts, dds): add(dt.get_text(), dd.get_text())
ZipAdd(specs, dts, dds) ==
  IF dts = <<>> \/ dds = <<>> THEN specs
  ELSE ZipAdd(add(specs, Head(dts), Head(dds)), Tail(dts), Tail(dds))

RECURSIVE ScanDls(_, _)
ScanDls(specs, dls) ==
  IF dls = <<>> THEN specs
  ELSE ScanDls(ZipAdd(specs, Head(dls).dts, Head(dls).dds), Tail(dls))

RECURSIVE ScanLabelled(_, _)
\* for tag in soup.find_all(["div","span","p"], class_=...)
ScanLabelled(specs, tags) ==
  IF tags = <<>> THEN specs
  ELSE
    LET tag == Head(tags)
        label == strip(tag.text)
    IN IF tag.next # NoneStr /\ label # <<>> /\ Len(label) < MAX_LABEL_LEN
         THEN ScanLabelled(add(specs, label, tag.next), Tail(tags))
         ELSE ScanLabelled(specs, Tail(tags))

\* The mapping specs that parse_specs_from_car_page builds.
ExtractSpecs(doc) ==
  ScanLabelled(ScanDls(ScanTables(EmptyDict, doc.tables), doc.dls),
               doc.labelled)

\* Longest row list of the first table drawn.
MaxRows == 2

\* c repeated n times
Rep(c, n) == [i \in 1..n |-> c]

S_Engine == <<"E","n","g","i","n","e">>
S_Power == <<"P","o","w","e","r">>
S_Torque == <<"T","o","r","q","u","e">>
V_25Turbo == <<"2",".","5","L"," ","T","u","r","b","o">>
V_30V6_raw == <<"3",".","0","L","\n","V","6"," ">>
V_30V6 == <<"3",".","0","L"," ","V","6">>
V_20 == <<"2",".","0","L">>
V_18 == <<"1",".","8","L">>
V_400HP == <<"4","0","0"," ","H","P">>
V_500Nm == <<"5","0","0"," ","N","m">>
K_MarginTop ==
  <<"m","a","r","g","i","n","-","t","o","p",":"," ","1","0","p","x">>
V_ColorRed == <<"c","o","l","o","r",":"," ","r","e","d",";">>
K_Long == Rep("x", MAX_NOISE_LEN + 1)
K_Label100 == Rep("y", MAX_LABEL_LEN)

\* The genuine row and the noise row of a vehicle page.
Row_Engine == <<S_Engine, V_25Turbo>>
Row_Noise == <<K_MarginTop, <<"a","u","t","o">>>>

\* A row whose texts need trimming and newline collapsing.
Row_Engine_raw == << <<" ">> \o S_Engine \o <<"\n">>, V_30V6_raw >>

\* Rows of a table: their cell texts.
RowPool ==
  {Row_Engine,
   Row_Noise,
   Row_Engine_raw,
   <<S_Engine, V_ColorRed>>,
   <<S_Engine, <<" ">>>>,
   <<S_Power, V_400HP, <<"k","W">>>>,
   << S_Torque \o <<":"," ">> \o V_500Nm >>,
   <<S_Engine>>}

\* Definition lists: the texts of their dt and of their dd elements.
DlPool ==
  {[dts |-> <<S_Engine, S_Power>>, dds |-> <<V_20>>],
   [dts |-> <<K_Long, S_Power>>, dds |-> <<V_20, V_400HP>>]}

\* Label containers: text and the text of the next sibling.
LabelledPool ==
  {[text |-> S_Engine \o <<" ">>, next |-> V_18],
   [text |-> S_Engine, next |-> NoneStr],
   [text |-> K_Label100, next |-> V_18]}

RowsDoc(tables, dls, labelled) ==
  [tag |-> "rows", tables |-> tables, dls |-> dls, labelled |-> labelled]

RECURSIVE SeqsUpTo(_, _)
\* The sequences of at most n elements of S.
SeqsUpTo(S, n) ==
  IF n = 0 THEN {<<>>}
  ELSE {<<>>} \cup {<<x>> \o t : x \in S, t \in SeqsUpTo(S, n - 1)}

\* Pages with up to two tables; a row of a nested table is also a row of
\* the table around it, so the second table's rows may repeat the first's.
RowsDocs ==
  {RowsDoc(<<t1, t2>>, dls, labelled) :
     t1 \in SeqsUpTo(RowPool, MaxRows),
     t2 \in SeqsUpTo({Row_Engine, Row_Engine_raw}, 1),
     dls \in SeqsUpTo(DlPool, 1),
     labelled \in SeqsUpTo(LabelledPool, 1)}

ParseInit ==
  /\ pc = "parse"
  /\ html \in RowsDocs
  /\ brand_in = S_Audi
  /\ model_in = S_TTRS
  /\ playwright = FALSE
  /\ brand = brand_in
  /\ models = <<>>
  /\ model_link = None
  /\ car_specs = None
  /\ url = None
  /\ stack = <<>>
  /\ fcs_model = model_in
  /\ attempt = 0
  /\ browser = 0
  /\ io = <<>>
  /\ rendered = <<>>
  /\ raised = "no"
  /\ LookupIdle
  /\ ImageIdle

\* parse_specs_from_car_page on a page with rows, no image and no title.
Parse_Rows ==
  /\ pc = "parse"
  /\ car_specs' = CarSpecs(brand, fcs_model,
                           brand \o <<" ">> \o fcs_model,
                           ExtractSpecs(html), None)
  /\ pc' = "parse_done"
  /\ UNCHANGED <<inVars, stack, brand, models, model_link, html, url,
                 fcs_model, attempt, browser, io, rendered, raised,
                 lkVars, imgVars>>

ParseNext == Parse_Rows

SpecParse == ParseInit /\ [][ParseNext]_vars

(***************************************************************************)
(* C21                                                                     *)
(***************************************************************************)
RECURSIVE Flatten(_)
Flatten(ss) == IF ss = <<>> THEN <<>> ELSE Head(ss) \o Flatten(Tail(ss))

Pair(k, v) == [k |-> k, v |-> v]

\* The label/value pair a table row offers (none for other rows).
RowPairs(cells) ==
  IF Len(cells) >= 2 THEN <<Pair(cells[1], cells[2])>>
  ELSE IF Len(cells) = 1 /\ (\E i \in 1..Len(cells[1]) : cells[1][i] = ":")
    THEN <<Pair(BeforeFirst(strip(cells[1]), ":"),
                AfterFirst(strip(cells[1]), ":"))>>
  ELSE <<>>

DlPairs(dl) ==
  [i \in 1..Min({Len(dl.dts), Len(dl.dds)}) |-> Pair(dl.dts[i], dl.dds[i])]

LabelledPairs(tag) ==
  IF tag.next # NoneStr /\ Len(strip(tag.text)) < MAX_LABEL_LEN
    THEN <<Pair(tag.text, tag.next)>>
    ELSE <<>>

\* The candidate pairs of a page: tables, then definition lists, then label
\* containers, each in document order.
CandidatePairs(doc) ==
  Flatten([t \in DOMAIN doc.tables |->
             Flatten([r \in DOMAIN doc.tables[t] |->
                        RowPairs(doc.tables[t][r])])])
  \o Flatten([d \in DOMAIN doc.dls |-> DlPairs(doc.dls[d])])
  \o Flatten([l \in DOMAIN doc.labelled |-> LabelledPairs(doc.labelled[l])])

\* Both texts non-empty after trimming and newline collapsing, and the
\* noise classifier rejects neither.
Acceptable(p) ==
  /\ CleanText(p.k) # <<>>
  /\ CleanText(p.v) # <<>>
  /\ ~is_noise(CleanText(p.k))
  /\ ~is_noise(CleanText(p.v))

\* C21: the extracted attributes hold exactly the labels of the acceptable
\* candidate pairs (trimmed, newlines collapsed, both texts non-empty and
\* neither classified as noise), each with the value of its last acceptable
\* occurrence in the order tables, definition lists, label containers; the
\* noise row margin-top: 10px never appears, and the row Engine / 2.5L Turbo
\* always puts the label Engine into the attributes.
C21_AcceptedPairsLastWins ==
  pc = "parse_done" =>
    LET ps == CandidatePairs(html)
        s == car_specs.specs
        Last(k) == Max({i \in 1..Len(ps) :
                          Acceptable(ps[i]) /\ CleanText(ps[i].k) = k})
    IN /\ DOMAIN s = {CleanText(ps[i].k) :
                        i \in {j \in 1..Len(ps) : Acceptable(ps[j])}}
       /\ \A k \in DOMAIN s : s[k] = CleanText(ps[Last(k)].v)
       /\ \A k \in DOMAIN s : ~is_noise(k) /\ ~is_noise(s[k])
       /\ K_MarginTop \notin DOMAIN s
       /\ (\E t \in DOMAIN html.tables :
             \E r \in DOMAIN html.tables[t] : html.tables[t][r] = Row_Engine)
            => S_Engine \in DOMAIN s

\* A page with the noise row, then the row Engine / 2.5L Turbo, whose label
\* Engine is accepted again by a definition list: the later value is kept.
C21_Witness ==
  /\ pc = "parse_done"
  /\ html.tables[1] = <<Row_Noise, Row_Engine>>
  /\ html.dls # <<>>
  /\ html.dls[1].dts[1] = S_Engine
  /\ html.labelled = <<>>
  /\ car_specs.specs = (S_Engine :> V_20)

(***************************************************************************)
(* SpecModels: get_models_from_make_page applied to one listing page       *)
(***************************************************************************)

\* Longest anchor list drawn from the pool.
MaxAnchors == 3

DigitChars == <<"0","1","2","3","4","5","6","7","8","9">>

RECURSIVE Decimal(_)
\* str(n)
Decimal(n) ==
  IF n < 10 THEN <<DigitChars[n + 1]>>
  ELSE Decimal(n \div 10) \o <<DigitChars[(n % 10) + 1]>>

S_3Series == <<"3"," ","S","e","r","i","e","s">>
Make_BMW_3Series == Url("make", <<"b","m","w">>, <<"3_series">>)
Make_BMW == Url("make", <<"b","m","w">>, <<>>)
Make_Audi_A3 == Url("make", <<"a","u","d","i">>, <<"a3">>)

\* Anchors of a listing page: resolved URL and link text.
AnchorPool ==
  {Anchor(Car_320i, N_320i, <<>>),
   Anchor(Car_320i, S_M3, <<>>),
   Anchor(Car_M3, <<" ">> \o N_320i \o <<"\n">>, <<>>),
   Anchor(Car_M3, N_M3Competition, <<>>),
   Anchor(Car_X5, <<" ">>, <<>>),
   Anchor(Car_X5, Rep("x", MAX_LINK_TEXT + 1), <<>>),
   Anchor(Car_M3_short, <<"X">>, <<>>),
   Anchor(Make_BMW_3Series, S_3Series, <<>>),
   Anchor(Make_BMW, S_BMW, <<>>),
   Anchor(Make_Audi_A3, S_M3, <<>>),
   Anchor(CATALOG_BASE_URL, N_Home, <<>>)}

\* The i-th vehicle link of a long listing.
NumberedAnchor(i) ==
  Anchor(Url("car", Decimal(i), <<>>), <<"N","o"," ">> \o Decimal(i), <<>>)

\* A long listing: a vehicle link, a second link to the same URL, a link
\* with the same text to another URL, then n - 1 further vehicle links.
LongListing(n) ==
  << NumberedAnchor(1),
     Anchor(Url("car", Decimal(1), <<>>), S_M3, <<>>),
     Anchor(Car_M3, <<"N","o"," ","1">>, <<>>) >>
  \o [i \in 1..(n - 1) |-> NumberedAnchor(i + 1)]

ListingDocs ==
  {Page(as, EmptyDict, None, NoneStr) : as \in SeqsUpTo(AnchorPool, MaxAnchors)}
  \cup {Page(LongListing(n), EmptyDict, None, NoneStr) :
          n \in (MAX_MODELS - 1)..(MAX_MODELS + MaxAnchors)}

ModelsInit ==
  /\ pc = "models"
  /\ html \in ListingDocs
  /\ brand_in = S_BMW
  /\ model_in = NoneStr
  /\ playwright = FALSE
  /\ brand = brand_in
  /\ models = <<>>
  /\ model_link = None
  /\ car_specs = None
  /\ url = get_make_url(brand)
  /\ stack = <<>>
  /\ fcs_model = NoneStr
  /\ attempt = 0
  /\ browser = 0
  /\ io = <<>>
  /\ rendered = <<>>
  /\ raised = "no"
  /\ LookupIdle
  /\ ImageIdle

\* models = get_models_from_make_page(html, url, make)
Models_Extract ==
  /\ pc = "models"
  /\ models' = get_models_from_make_page(html, brand)
  /\ pc' = "models_done"
  /\ UNCHANGED <<inVars, stack, brand, model_link, car_specs, html, url,
                 fcs_model, attempt, browser, io, rendered, raised,
                 lkVars, imgVars>>

ModelsNext == Models_Extract

SpecModels == ModelsInit /\ [][ModelsNext]_vars

(***************************************************************************)
(* C22                                                                     *)
(***************************************************************************)
\* Non-empty link text of at most 150 characters.
TextOk(a) == strip(a.text) # <<>> /\ Len(strip(a.text)) <= 150

\* The link rule: a vehicle-detail path, or a path under the make's listing
\* with at least three segments.
LinkOk(a, make) ==
  \/ IsCarPath(a.full)
  \/ IsUnderMake(a.full, normalize_make(make)) /\ PathParts(a.full) >= 3

\* Positions of the anchors that are the first accepted occurrence of their
\* resolved URL.
FirstOfUrl(as, make) ==
  {j \in 1..Len(as) :
     /\ TextOk(as[j]) /\ LinkOk(as[j], make)
     /\ \A i \in 1..(j - 1) :
          ~(TextOk(as[i]) /\ LinkOk(as[i], make) /\ as[i].full = as[j].full)}

\* Among those, the first occurrence of each display text of two or more
\* characters.
FirstOfText(as, make) ==
  LET U == FirstOfUrl(as, make)
  IN {j \in U :
        /\ Len(strip(as[j].text)) >= 2
        /\ \A i \in U : i < j => strip(as[i].text) # strip(as[j].text)}

\* C22: the candidates of a listing page are at most 100, pairwise distinct
\* in URL and in display text, never from an anchor with empty or
\* over-long text, and they are, in document order, the first occurrences
\* of each URL and then of each display text, cut after the first 100.
C22_ListingDeduplicated ==
  pc = "models_done" =>
    LET as == html.anchors
        K == FirstOfText(as, brand)
        Nth(i) == CHOOSE j \in K : Cardinality({k \in K : k < j}) = i - 1
    IN /\ Len(models) <= 100
       /\ Len(models) = Min({Cardinality(K), 100})
       /\ \A i \in 1..Len(models) :
            models[i] = [url |-> as[Nth(i)].full,
                         name |-> strip(as[Nth(i)].text)]
       /\ \A i, j \in 1..Len(models) :
            i # j => /\ models[i].url # models[j].url
                     /\ models[i].name # models[j].name
       /\ \A i \in 1..Len(models) :
            /\ models[i].name # <<>>
            /\ Len(models[i].name) <= 150
            /\ \E j \in 1..Len(as) :
                 /\ as[j].full = models[i].url
                 /\ strip(as[j].text) = models[i].name
                 /\ \A k \in 1..(j - 1) :
                      TextOk(as[k]) /\ LinkOk(as[k], brand)
                        => as[k].full # as[j].full

\* A listing with more than 100 distinct vehicle links, a repeated URL and a
\* repeated display text: 100 candidates are returned.
C22_Witness ==
  /\ pc = "models_done"
  /\ Len(html.anchors) > 103
  /\ Len(models) = 100
  /\ models[1].name = <<"N","o"," ","1">>
  /\ models[100].name = <<"N","o"," ","1","0","0">>

(***************************************************************************)
(* SpecPhoto: _extract_car_image_url applied to the images of one page     *)
(***************************************************************************)
(* An img element is kept as its src, alt, width and height attributes     *)
(* (the empty string for a missing alt, width or height).                  *)
(***************************************************************************)
SKIP_IMAGE_PATTERNS ==
  {<<"l","o","g","o">>, <<"i","c","o","n">>, <<"b","a","n","n","e","r">>,
   <<"a","d","v","e","r","t">>, <<"b","u","t","t","o","n">>,
   <<"f","l","a","g">>, <<"p","i","x","e","l">>,
   <<"t","r","a","c","k","i","n","g">>, <<"s","p","a","c","e","r">>,
   <<"b","l","a","n","k">>, <<"a","v","a","t","a","r">>,
   <<"f","a","v","i","c","o","n">>, <<"s","p","r","i","t","e">>,
   <<"s","o","c","i","a","l">>, <<"f","a","c","e","b","o","o","k">>,
   <<"t","w","i","t","t","e","r">>, <<"i","n","s","t","a","g","r","a","m">>,
   <<"y","o","u","t","u","b","e">>,
   <<"c","l","o","u","d","f","l","a","r","e">>,
   <<"c","a","p","t","c","h","a">>, <<"r","e","c","a","p","t","c","h","a">>,
   <<"w","i","d","g","e","t">>}

IMAGE_EXTENSIONS ==
  {<<".","j","p","g">>, <<".","j","p","e","g">>, <<".","p","n","g">>,
   <<".","w","e","b","p">>}

PHOTO_PATHS ==
  {<<"/","p","i","c","/">>, <<"/","i","m","g","/">>,
   <<"/","p","h","o","t","o","/">>, <<"/","c","a","r","/">>,
   <<"/","i","m","a","g","e","/">>}

ALT_KEYWORDS ==
  {<<"c","a","r">>, <<"a","u","t","o">>, <<"p","h","o","t","o">>,
   <<"v","e","h","i","c","l","e">>, <<"c","o","u","p","e">>,
   <<"s","e","d","a","n">>}

MIN_IMG_SIDE == 80
LARGE_WIDTH == 300
LARGE_HEIGHT == 200
SCORE_ALT == 10
SCORE_SRC == 5
SCORE_SIZE == 3

\* str.isdigit() on the characters the inputs use
isdigit(s) ==
  s # <<>> /\ \A i \in 1..Len(s) : \E d \in 1..10 : DigitChars[d] = s[i]

DigitValue(c) == (CHOOSE d \in 1..10 : DigitChars[d] = c) - 1

RECURSIVE int(_)
\* int(s) of a string of digits
int(s) ==
  IF s = <<>> THEN 0
  ELSE 10 * int(SubSeq(s, 1, Len(s) - 1)) + DigitValue(s[Len(s)])

RemoveChar(s, c) == SelectSeq(s, LAMBDA x : x # c)

Img(src, alt, width, height) ==
  [src |-> src, alt |-> alt, width |-> width, height |-> height]

\* urljoin(base_url, src) for a src that is a path on the site
ImageUrl(src) == Url("other", src, <<>>)

\* The continue statements of the img loop.
ImgSkipped(im) ==
  With(lower(strip(im.src)), LAMBDA src_lower :
    With(lower(im.alt), LAMBDA alt :
      \/ src_lower = <<>>
      \/ ~\E ext \in IMAGE_EXTENSIONS : IsSubstr(ext, src_lower)
      \/ \E skip \in SKIP_IMAGE_PATTERNS : IsSubstr(skip, src_lower)
      \/ \E skip \in SKIP_IMAGE_PATTERNS : IsSubstr(skip, alt)
      \/ isdigit(im.width) /\ int(im.width) < MIN_IMG_SIDE
      \/ isdigit(im.height) /\ int(im.height) < MIN_IMG_SIDE))

Points(cond, n) == IF cond THEN n ELSE 0

\* score of the img loop
ImgScore(im, make, model) ==
  With(lower(strip(im.src)), LAMBDA src_lower :
    With(lower(im.alt), LAMBDA alt :
      With(lower(make), LAMBDA make_lower :
        With(remove_spaces(lower(model)), LAMBDA model_lower :
            Points(IsSubstr(make_lower, alt), SCORE_ALT)
          + Points(IsSubstr(model_lower, remove_spaces(alt)), SCORE_ALT)
          + Points(IsSubstr(make_lower, src_lower), SCORE_SRC)
          + Points(IsSubstr(model_lower,
                            RemoveChar(RemoveChar(src_lower, "_"), "-")),
                   SCORE_SRC)
          + Points(\E p \in PHOTO_PATHS : IsSubstr(p, src_lower), SCORE_SRC)
          + Points(isdigit(im.width) /\ int(im.width) >= LARGE_WIDTH,
                   SCORE_SIZE)
          + Points(isdigit(im.height) /\ int(im.height) >= LARGE_HEIGHT,
                   SCORE_SIZE)
          + Points(\E kw \in ALT_KEYWORDS : IsSubstr(kw, alt),
                   SCORE_SIZE)))))

RECURSIVE ImageCandidates(_, _, _)
\* candidates: (score, full_url) of the images kept, in document order
ImageCandidates(imgs, make, model) ==
  IF imgs = <<>> THEN <<>>
  ELSE
    LET im == Head(imgs)
        rest == ImageCandidates(Tail(imgs), make, model)
    IN IF ImgSkipped(im) THEN rest
       ELSE With(ImgScore(im, make, model), LAMBDA score :
              IF score > 0
                THEN <<[score |-> score, url |-> ImageUrl(strip(im.src))]>>
                     \o rest
                ELSE rest)

\* Puts c before an equal score: faulty variant of InsertByScore.
InsertByScore_before_equal(sorted, c) ==
  LET before == {i \in 1..Len(sorted) : sorted[i].score > c.score}
      n == Cardinality(before)
  IN SubSeq(sorted, 1, n) \o <<c>> \o SubSeq(sorted, n + 1, Len(sorted))

\* Puts c after the entries whose key -score is not greater: a stable sort.
InsertByScore(sorted, c) ==
  LET before == {i \in 1..Len(sorted) : sorted[i].score >= c.score}
      n == Cardinality(before)
  IN SubSeq(sorted, 1, n) \o <<c>> \o SubSeq(sorted, n + 1, Len(sorted))

RECURSIVE SortByScore(_, _)
\* candidates.sort(key=lambda x: -x[0])
SortByScore(cands, sorted) ==
  IF cands = <<>> THEN sorted
  ELSE SortByScore(Tail(cands), InsertByScore(sorted, Head(cands)))

\* _extract_car_image_url
extract_car_image_url(doc, make, model) ==
  With(ImageCandidates(doc.images, make, model), LAMBDA candidates :
    IF candidates = <<>> THEN None
    ELSE SortByScore(candidates, <<>>)[1].url)

\* make and model in alt and src, a photo path, large
Img_Best ==
  Img(<<"/","p","i","c","/","a","u","d","i","_","t","t","-","r","s",".","j","p","g">>,
      <<"A","u","d","i"," ","T","T"," ","R","S"," ","c","o","u","p","e">>,
      <<"6","4","0">>, <<"4","8","0">>)

\* rejected: src names a logo
Img_Logo ==
  Img(<<"/","i","m","g","/","a","u","d","i","_","l","o","g","o",".","p","n","g">>,
      <<"A","u","d","i">>,
      <<>>, <<>>)

\* rejected: alt names an avatar
Img_Avatar ==
  Img(<<"/","p","i","c","/","a","u","d","i","2",".","j","p","g">>,
      <<"a","u","d","i"," ","a","v","a","t","a","r">>,
      <<>>, <<>>)

\* rejected: width 79
Img_Narrow ==
  Img(<<"/","p","i","c","/","a","u","d","i","3",".","j","p","g">>,
      <<"A","u","d","i"," ","T","T"," ","R","S">>,
      <<"7","9">>, <<"4","0","0">>)

\* rejected: height 79
Img_Low ==
  Img(<<"/","p","i","c","/","a","u","d","i","4",".","j","p","g">>,
      <<"A","u","d","i"," ","T","T"," ","R","S">>,
      <<"4","0","0">>, <<"7","9">>)

\* rejected: not an image extension
Img_Gif ==
  Img(<<"/","p","i","c","/","a","u","d","i","5",".","g","i","f">>,
      <<"A","u","d","i"," ","T","T"," ","R","S">>,
      <<>>, <<>>)

\* rejected: blank src
Img_NoSrc ==
  Img(<<" ">>,
      <<"A","u","d","i"," ","T","T"," ","R","S">>,
      <<>>, <<>>)

\* score 0
Img_Plain ==
  Img(<<"/","x","/","c",".","j","p","g">>,
      <<>>,
      <<>>, <<>>)

\* score 5
Img_Pic ==
  Img(<<"/","p","i","c","/","b",".","j","p","g">>,
      <<>>,
      <<>>, <<>>)

\* score 5, width exactly 80
Img_Photo ==
  Img(<<"/","p","h","o","t","o","/","e",".","p","n","g">>,
      <<>>,
      <<"8","0">>, <<>>)

\* score 3, width not a number
Img_Px ==
  Img(<<"/","x","/","f",".","w","e","b","p">>,
      <<"c","a","r">>,
      <<"5","0","p","x">>, <<>>)

ImgPool ==
  {Img_Best,
   Img_Logo,
   Img_Avatar,
   Img_Narrow,
   Img_Low,
   Img_Gif,
   Img_NoSrc,
   Img_Plain,
   Img_Pic,
   Img_Photo,
   Img_Px}

\* Longest image list drawn.
MaxImages == 3

ImageDocs ==
  {[tag |-> "images", images |-> ims] : ims \in SeqsUpTo(ImgPool, MaxImages)}

PhotoInit ==
  /\ pc = "photo"
  /\ html \in ImageDocs
  /\ brand_in = S_Audi
  /\ model_in = S_TTRS
  /\ playwright = FALSE
  /\ brand = brand_in
  /\ models = <<>>
  /\ model_link = None
  /\ car_specs = None
  /\ url = None
  /\ stack = <<>>
  /\ fcs_model = model_in
  /\ attempt = 0
  /\ browser = 0
  /\ io = <<>>
  /\ rendered = <<>>
  /\ raised = "no"
  /\ LookupIdle
  /\ ImageIdle

\* image_url = _extract_car_image_url(soup, page_url, make, model), in the
\* CarSpecs of a page with images, no rows and no title.
Photo_Extract ==
  /\ pc = "photo"
  /\ car_specs' = CarSpecs(brand, fcs_model,
                           brand \o <<" ">> \o fcs_model, EmptyDict,
                           extract_car_image_url(html, brand, fcs_model))
  /\ pc' = "photo_done"
  /\ UNCHANGED <<inVars, stack, brand, models, model_link, html, url,
                 fcs_model, attempt, browser, io, rendered, raised,
                 lkVars, imgVars>>

PhotoNext == Photo_Extract

SpecPhoto == PhotoInit /\ [][PhotoNext]_vars

(***************************************************************************)
(* C23                                                                     *)
(***************************************************************************)
\* Positions of the images that pass the rejection rules and score above 0.
Eligible(doc, make, model) ==
  {i \in 1..Len(doc.images) :
     ~ImgSkipped(doc.images[i]) /\ ImgScore(doc.images[i], make, model) > 0}

\* A width or height attribute that is a number below 80.
ExplicitlySmall(im) ==
  \/ isdigit(im.width) /\ int(im.width) < 80
  \/ isdigit(im.height) /\ int(im.height) < 80

\* C23: the photo URL is that of the earliest image among those with the
\* highest score that pass the rejection rules and score above 0; it is
\* None when there is no such image; the image chosen never has a numeric
\* width or height below 80.
C23_BestPhotoFirstOfTies ==
  pc = "photo_done" =>
    LET ims == html.images
        E == Eligible(html, brand, fcs_model)
        Sc(i) == ImgScore(ims[i], brand, fcs_model)
        Top == {i \in E : \A j \in E : Sc(j) <= Sc(i)}
    IN /\ E = {} => car_specs.image_url = None
       /\ E # {} =>
            /\ car_specs.image_url = ImageUrl(strip(ims[Min(Top)].src))
            /\ ~ExplicitlySmall(ims[Min(Top)])
       /\ \A i \in 1..Len(ims) :
            ExplicitlySmall(ims[i])
              => car_specs.image_url # ImageUrl(strip(ims[i].src))

\* Two images tie on the top score behind a rejected narrow image that
\* would have scored higher: the earlier of the two is returned.
C23_Witness ==
  /\ pc = "photo_done"
  /\ html.images = <<Img_Narrow, Img_Photo, Img_Pic>>
  /\ car_specs.image_url = ImageUrl(Img_Photo.src)

(***************************************************************************)
(* SpecBrowser: one call of fetch_html_with_browser                        *)
(***************************************************************************)
\* Targets of a fetch: the home page, a listing, a search, a vehicle page.
BrowserTargets ==
  {CATALOG_BASE_URL, get_make_url(S_Audi), get_make_url(S_bmw),
   get_search_url(S_Audi \o <<" ">> \o S_TTRS), Car_320i, Car_M3,
   Car_M3_short, Car_X5}

BrowserInit ==
  /\ pc = "browser"
  /\ stack = <<"fetched">>
  /\ url \in BrowserTargets
  /\ playwright \in BOOLEAN
  /\ brand_in = S_Audi
  /\ model_in = NoneStr
  /\ brand = brand_in
  /\ models = <<>>
  /\ model_link = None
  /\ car_specs = None
  /\ html = None
  /\ fcs_model = NoneStr
  /\ attempt = 0
  /\ browser = 0
  /\ io = <<>>
  /\ rendered = <<>>
  /\ raised = "no"
  /\ LookupIdle
  /\ ImageIdle

BrowserNext ==
  \/ Browser_Launch
  \/ Browser_Home
  \/ Browser_Goto
  \/ Browser_Idle
  \/ Browser_Content

SpecBrowser == BrowserInit /\ [][BrowserNext]_vars

(***************************************************************************)
(* C24                                                                     *)
(***************************************************************************)
\* Positions of the navigations in the history.
Gotos == {i \in 1..Len(io) : io[i].op = "goto"}

\* Positions of the navigations that raised: the session is closed next.
FailedGotos == {i \in Gotos : i < Len(io) /\ io[i + 1].op = "close"}

IdleTimeouts ==
  {i \in 1..Len(io) : io[i].op = "wait_idle" /\ io[i].note = "timeout"}

\* C24: in a browser fetch the home page is navigated to before every
\* target other than the home page (and the home page as target is
\* navigated to once); after a timeout of the wait for network idle the
\* fetch still reads the page content and returns it; and a fetch in which
\* a navigation failed returns None.
C24_HomeFirstTimeoutTolerated ==
  /\ \A j \in Gotos :
       io[j].url # CATALOG_BASE_URL
         => /\ j > 2
            /\ io[j - 2] = Ev("goto", CATALOG_BASE_URL, "")
            /\ j - 2 \notin FailedGotos
  /\ url = CATALOG_BASE_URL => Cardinality(Gotos) <= 1
  /\ pc = "fetched" /\ IdleTimeouts # {}
       => /\ \E i \in 1..Len(io) : io[i].op = "content"
          /\ html = None <=> \E i \in 1..Len(io) :
                               io[i].op = "content" /\ io[i].note = "error"
  /\ pc = "fetched" /\ FailedGotos # {} => html = None

\* A fetch of a vehicle page went to the home page first, its wait for
\* network idle timed out, and it returned the page.
C24_Witness ==
  /\ pc = "fetched"
  /\ url = Car_M3
  /\ \E j \in Gotos : io[j].url = Car_M3 /\ io[j - 2].url = CATALOG_BASE_URL
  /\ IdleTimeouts # {}
  /\ html = PageCar

(***************************************************************************)
(* C25                                                                     *)
(***************************************************************************)
\* Positions of fetch_html_with_browser between launch and close.
InSession ==
  {"browser_home", "browser_goto", "browser_idle", "browser_content"}

Closes == {i \in 1..Len(io) : io[i].op = "close"}

\* A step in which fetch_html_with_browser returns after its launch.
LeavesSession == pc \in InSession /\ pc' \notin InSession

\* C25: a browser session is open only between its launch and the return
\* of the fetch that launched it: the step that leaves the fetch closes the
\* session, on success and on failure alike, so at most one session is ever
\* open and none is open outside a fetch, in particular when run has
\* returned.
C25_SessionsClosed ==
  /\ [][LeavesSession => browser' = 0 /\ io'[Len(io')].op = "close"]_vars
  /\ [](browser \in {0, 1})
  /\ [](browser = 1 <=> pc \in InSession)
  /\ [](Cardinality(Closes) <= Cardinality(Launches))
  /\ [](pc \in {"done", "raised"} => browser = 0)

\* run has returned after a fetch that failed when reading the content and
\* a fetch that succeeded: both sessions were closed.
C25_Witness ==
  /\ pc = "done"
  /\ browser = 0
  /\ \E i \in Closes : io[i - 1].op = "content" /\ io[i - 1].note = "error"
  /\ \E i \in Closes : io[i - 1].op = "content" /\ io[i - 1].note = "ok"
  /\ \E i \in Closes : io[i - 1].op = "launch"

(***************************************************************************)
(* C26                                                                     *)
(***************************************************************************)
MAX_SESSIONS_PER_FETCH == 2
MAX_SESSIONS_PER_RUN == 4

\* Positions of the launches made for the vehicle page (by fetch_car_specs
\* and by the _get_url it calls).
VehicleLaunches == {i \in Launches : io[i].url.kind = "car"}

\* C26: a run launches at most four browser sessions, at most two of them
\* for the vehicle page, the second of these only after the first browser
\* attempt and then the network path have ended without HTML; it issues at
\* most REQUEST_RETRIES GETs; and, every I/O call returning, run ends.
C26_BoundedAttemptsTerminates ==
  /\ [](Cardinality(Launches) <= MAX_SESSIONS_PER_RUN)
  /\ [](Cardinality(VehicleLaunches) <= MAX_SESSIONS_PER_FETCH)
  /\ [](Cardinality(Gets) <= REQUEST_RETRIES)
  /\ [](Gets # {} => /\ VehicleLaunches # {} => Min(VehicleLaunches) < Min(Gets)
                     /\ \A i \in Gets : io[i].url.kind = "car")
  /\ [](Cardinality(VehicleLaunches) = MAX_SESSIONS_PER_FETCH
          => /\ Gets # {}
             /\ Max(Gets) < Max(VehicleLaunches)
             /\ NetworkGaveUp)
  /\ <>(pc \in {"done", "raised"})

\* A run that used every attempt: four browser sessions and
\* REQUEST_RETRIES GETs.
C26_Witness ==
  /\ pc = "done"
  /\ Cardinality(Launches) = MAX_SESSIONS_PER_RUN
  /\ Cardinality(VehicleLaunches) = MAX_SESSIONS_PER_FETCH
  /\ Cardinality(Gets) = REQUEST_RETRIES

(***************************************************************************)
(* SpecSelect: _select_specs (poster_generator.py) applied to one mapping  *)
(***************************************************************************)
(* A dict is kept in insertion order, as a sequence of [k, v] with         *)
(* distinct k.  The aliases written in Cyrillic are left out of            *)
(* SPEC_ALIASES: the keys drawn are ASCII and contain none of them.        *)
(***************************************************************************)
L_Engine == <<"E","n","g","i","n","e">>
L_Power == <<"P","o","w","e","r">>
L_Torque == <<"T","o","r","q","u","e">>
L_0_60_mph == <<"0","-","6","0"," ","m","p","h">>
L_0_100_km_h == <<"0","-","1","0","0"," ","k","m","/","h">>
L_Top_Speed == <<"T","o","p"," ","S","p","e","e","d">>
L_Drivetrain == <<"D","r","i","v","e","t","r","a","i","n">>
L_Transmission == <<"T","r","a","n","s","m","i","s","s","i","o","n">>
L_Displacement == <<"D","i","s","p","l","a","c","e","m","e","n","t">>
L_Curb_weight == <<"C","u","r","b"," ","w","e","i","g","h","t">>

SPEC_DISPLAY_ORDER ==
  <<L_Engine,
    L_Power,
    L_Torque,
    L_0_60_mph,
    L_0_100_km_h,
    L_Top_Speed,
    L_Drivetrain,
    L_Transmission,
    L_Displacement,
    L_Curb_weight>>

Alias(alias, canonical) == [alias |-> alias, canonical |-> canonical]

SPEC_ALIASES ==
  <<Alias(<<"e","n","g","i","n","e"," ","t","y","p","e">>,
          L_Engine),
    Alias(<<"m","o","t","o","r">>,
          L_Engine),
    Alias(<<"m","a","x"," ","p","o","w","e","r">>,
          L_Power),
    Alias(<<"m","a","x","i","m","u","m"," ","p","o","w","e","r">>,
          L_Power),
    Alias(<<"p","o","w","e","r"," ","o","u","t","p","u","t">>,
          L_Power),
    Alias(<<"m","a","x"," ","t","o","r","q","u","e">>,
          L_Torque),
    Alias(<<"m","a","x","i","m","u","m"," ","t","o","r","q","u","e">>,
          L_Torque),
    Alias(<<"m","a","x","i","m","u","m"," ","s","p","e","e","d">>,
          L_Top_Speed),
    Alias(<<"t","o","p"," ","s","p","e","e","d">>,
          L_Top_Speed),
    Alias(<<"v","m","a","x">>,
          L_Top_Speed),
    Alias(<<"g","e","a","r","b","o","x">>,
          L_Transmission),
    Alias(<<"g","e","a","r"," ","b","o","x">>,
          L_Transmission),
    Alias(<<"d","r","i","v","e","n"," ","w","h","e","e","l","s">>,
          L_Drivetrain),
    Alias(<<"d","r","i","v","e">>,
          L_Drivetrain),
    Alias(<<"d","r","i","v","e"," ","t","y","p","e">>,
          L_Drivetrain),
    Alias(<<"k","e","r","b"," ","w","e","i","g","h","t">>,
          L_Curb_weight),
    Alias(<<"w","e","i","g","h","t">>,
          L_Curb_weight),
    Alias(<<"e","n","g","i","n","e"," ","d","i","s","p","l","a","c","e","m","e","n","t">>,
          L_Displacement),
    Alias(<<"c","a","p","a","c","i","t","y">>,
          L_Displacement),
    Alias(<<"a","c","c","e","l","e","r","a","t","i","o","n"," ","0","-","1","0","0">>,
          L_0_100_km_h),
    Alias(<<"0","-","1","0","0">>,
          L_0_100_km_h),
    Alias(<<"a","c","c","e","l","e","r","a","t","i","o","n"," ","0","-","6","0">>,
          L_0_60_mph),
    Alias(<<"0","-","6","2"," ","m","p","h">>,
          L_0_60_mph)>>

\* _CSS_NOISE of poster_generator.py
CSS_NOISE ==
  (CSS_NOISE_PATTERNS \ {<<"d","o","c","t","y","p","e">>})
    \cup {<<"c","o","n","t","e","n","t",":">>}

POSTER_MAX_NOISE_LEN == 120
MIN_KEY_LEN == 2
MAX_KEY_LEN == 50
MIN_VAL_LEN == 1
MAX_VAL_LEN == 100
MAX_ITEMS_PHOTO == 5
MAX_ITEMS_TEXT == 7

\* _is_noise of poster_generator.py
poster_is_noise(text) ==
  With(strip(lower(text)), LAMBDA t :
    \/ t = <<>>
    \/ Len(t) > POSTER_MAX_NOISE_LEN
    \/ \E p \in CSS_NOISE : IsSubstr(p, t))

\* _normalize_key
normalize_key(key) ==
  With(strip(key), LAMBDA k :
    With(lower(k), LAMBDA kl :
      LET hits == {i \in 1..Len(SPEC_ALIASES) :
                     IsSubstr(SPEC_ALIASES[i].alias, kl)}
      IN IF hits # {} THEN SPEC_ALIASES[Min(hits)].canonical ELSE k))

Keys(d) == {d[i].k : i \in 1..Len(d)}

\* d[key] = val on a dict in insertion order
DictSet(d, key, val) ==
  IF key \in Keys(d)
    THEN [i \in 1..Len(d) |->
            IF d[i].k = key THEN [k |-> key, v |-> val] ELSE d[i]]
    ELSE Append(d, [k |-> key, v |-> val])

RECURSIVE CleanSpecs(_, _)
\* The first loop of _select_specs: the dict clean.
CleanSpecs(raw, clean) ==
  IF raw = <<>> THEN clean
  ELSE
    LET e == Head(raw)
        key == normalize_key(e.k)
        val == strip(e.v)
    IN IF poster_is_noise(e.k) \/ poster_is_noise(e.v)
         THEN CleanSpecs(Tail(raw), clean)
       ELSE IF /\ MIN_KEY_LEN <= Len(key) /\ Len(key) <= MAX_KEY_LEN
               /\ MIN_VAL_LEN <= Len(val) /\ Len(val) <= MAX_VAL_LEN
         THEN CleanSpecs(Tail(raw), DictSet(clean, key, val))
       ELSE CleanSpecs(Tail(raw), clean)

Row(label, value) == [label |-> label, value |-> value]

\* tl in k.lower() or k.lower() in tl
TargetMatches(target, k) ==
  IsSubstr(lower(target), lower(k)) \/ IsSubstr(lower(k), lower(target))

RECURSIVE SelectTargets(_, _, _, _, _)
\* The loop over SPEC_DISPLAY_ORDER; done is set by its return statement.
SelectTargets(targets, clean, result, used, max_items) ==
  IF targets = <<>> THEN [result |-> result, used |-> used, done |-> FALSE]
  ELSE
    LET target == Head(targets)
        hits == {i \in 1..Len(clean) :
                   clean[i].k \notin used /\ TargetMatches(target, clean[i].k)}
        result2 == IF hits # {}
                     THEN Append(result, Row(target, clean[Min(hits)].v))
                     ELSE result
        used2 == IF hits # {} THEN used \cup {clean[Min(hits)].k} ELSE used
    IN IF Len(result2) >= max_items
         THEN [result |-> result2, used |-> used2, done |-> TRUE]
         ELSE SelectTargets(Tail(targets), clean, result2, used2, max_items)

RECURSIVE SelectRest(_, _, _, _)
\* The last loop of _select_specs: the keys not used yet, under their own
\* name.
SelectRest(clean, result, used, max_items) ==
  IF clean = <<>> THEN result
  ELSE
    LET e == Head(clean)
    IN IF e.k \notin used /\ Len(result) < max_items
         THEN SelectRest(Tail(clean), Append(result, Row(e.k, e.v)),
                         used \cup {e.k}, max_items)
         ELSE SelectRest(Tail(clean), result, used, max_items)

\* _select_specs
select_specs(raw, max_items) ==
  With(CleanSpecs(raw, <<>>), LAMBDA clean :
    With(SelectTargets(SPEC_DISPLAY_ORDER, clean, <<>>, {}, max_items),
         LAMBDA st :
           IF st.done THEN st.result
           ELSE SelectRest(clean, st.result, st.used, max_items)))

A_Engine == [k |-> <<"E","n","g","i","n","e">>, v |-> <<"2",".","5","L">>]
A_EngineCode == [k |-> <<"E","n","g","i","n","e"," ","c","o","d","e">>, v |-> <<"D","A","Z","A">>]
A_MaxPower == [k |-> <<"M","a","x"," ","p","o","w","e","r">>, v |-> <<"4","0","0"," ","H","P">>]
A_Power == [k |-> <<"P","o","w","e","r">>, v |-> <<"2","9","4"," ","k","W">>]
A_Motor == [k |-> <<"M","o","t","o","r">>, v |-> <<" ","I","5"," ">>]
A_engine == [k |-> <<"e","n","g","i","n","e">>, v |-> <<"V","6">>]
A_Doors == [k |-> <<" ","D","o","o","r","s">>, v |-> <<"2">>]
A_X == [k |-> <<"X">>, v |-> <<"1">>]
A_Margin == [k |-> <<"m","a","r","g","i","n","-","t","o","p">>, v |-> <<"1","0","p","x">>]
A_Torque == [k |-> <<"T","o","r","q","u","e">>, v |-> <<" ">>]

\* Attributes drawn: a canonical name, a key that contains one, keys an
\* alias renames, a key in another case, a key to trim, a one-character
\* key, a noise key, a blank value.
AttrPool ==
  {A_Engine, A_EngineCode, A_MaxPower, A_Power, A_Motor,
   A_engine, A_Doors, A_X, A_Margin, A_Torque}

\* A mapping with more rows than either layout shows.
LongAttrs ==
  <<[k |-> <<"E","n","g","i","n","e">>,
     v |-> <<"2",".","5","L">>],
    [k |-> <<"P","o","w","e","r">>,
     v |-> <<"4","0","0"," ","H","P">>],
    [k |-> <<"T","o","r","q","u","e">>,
     v |-> <<"4","8","0"," ","N","m">>],
    [k |-> <<"0","-","1","0","0"," ","k","m","/","h">>,
     v |-> <<"3",".","7"," ","s">>],
    [k |-> <<"T","o","p"," ","S","p","e","e","d">>,
     v |-> <<"2","5","0"," ","k","m","/","h">>],
    [k |-> <<"D","r","i","v","e","t","r","a","i","n">>,
     v |-> <<"A","W","D">>],
    [k |-> <<"T","r","a","n","s","m","i","s","s","i","o","n">>,
     v |-> <<"7","-","s","p","e","e","d">>],
    [k |-> <<"D","o","o","r","s">>,
     v |-> <<"2">>]>>

\* Longest mapping drawn from the pool.
MaxAttrs == 3

SelectInputs ==
  ListsOver(AttrPool, MaxAttrs)
    \cup {LongAttrs, <<A_EngineCode>> \o LongAttrs}

SelectInit ==
  /\ pc = "select"
  /\ \E raw \in SelectInputs :
       car_specs = CarSpecs(S_Audi, S_TTRS, S_Audi \o <<" ">> \o S_TTRS,
                            raw, None)
  /\ brand_in = S_Audi
  /\ model_in = S_TTRS
  /\ playwright = FALSE
  /\ brand = brand_in
  /\ models = <<>>
  /\ model_link = None
  /\ html = None
  /\ url = None
  /\ stack = <<>>
  /\ fcs_model = model_in
  /\ attempt = 0
  /\ browser = 0
  /\ io = <<>>
  /\ rendered = <<>>
  /\ raised = "no"
  /\ LookupIdle
  /\ ImageIdle

\* selected = _select_specs(specs.specs, max_items=...) in generate_poster:
\* 5 rows in the layout with a photo, 7 in the layout without; rendered
\* holds the rows selected.
Select_Rows ==
  /\ pc = "select"
  /\ \E max_items \in {MAX_ITEMS_PHOTO, MAX_ITEMS_TEXT} :
       rendered' = select_specs(car_specs.specs, max_items)
  /\ pc' = "select_done"
  /\ UNCHANGED <<inVars, stack, brand, models, model_link, car_specs, html,
                 url, fcs_model, attempt, browser, io, raised,
                 lkVars, imgVars>>

SelectNext == Select_Rows

SpecSelect == SelectInit /\ [][SelectNext]_vars

(***************************************************************************)
(* C27                                                                     *)
(***************************************************************************)
\* C27 as stated: the rows selected for display carry pairwise distinct
\* labels, whatever the attributes mapping.
C27_DistinctLabels ==
  pc = "select_done" =>
    \A i, j \in 1..Len(rendered) :
      i # j => rendered[i].label # rendered[j].label

====
